---- MODULE Spec2Model ----
(***************************************************************************)
(* Shader / Program / SourceCompiler of src/src/program.rs, run against a  *)
(* model of the GL driver calls the code issues.  Every API call of the    *)
(* library is one atomic action (the library is single threaded, spec §5); *)
(* `calls` is the ordered list of GL calls issued by the last API call.    *)
(***************************************************************************)
EXTENDS Integers, Sequences, FiniteSets, TLC

\* ---------------------------------------------------------------- bounds
MaxHandles == 3
MaxReq == 2

\* Frames an example program draws before the window is closed, at most.
MaxFrames == 3

\* Events one poll_events() hands over, at most.
MaxBatch == 2

\* How far around the known error codes from_error_code is tried.
Margin == 30

\* ------------------------------------------------------- GL constants
GL_FALSE == 0
GL_TRUE == 1
COMPILE_STATUS == 35713
LINK_STATUS == 35714
INFO_LOG_LENGTH == 35716
VERTEX_SHADER == 35633
FRAGMENT_SHADER == 35632
GEOMETRY_SHADER == 36313
TESS_CONTROL_SHADER == 36488
TESS_EVALUATION_SHADER == 36487
COMPUTE_SHADER == 37305

\* U+FFFD, what to_string_lossy puts in place of an invalid byte
REPLACEMENT_CHARACTER == 65533

\* gl error codes
NO_ERROR == 0
INVALID_ENUM == 1280
INVALID_VALUE == 1281
INVALID_OPERATION == 1282
STACK_OVERFLOW == 1283
STACK_UNDERFLOW == 1284
OUT_OF_MEMORY == 1285
INVALID_FRAMEBUFFER_OPERATION == 1286

Handles == 1..MaxHandles

ShaderType == {"Vertex", "Fragment", "Geometry", "TessControl", "TessEvaluation", "Compute"}

\* Source texts handed to Shader::new, as bytes (97 = 'a', 0 = NUL).
Sources == {<<>>, <<97>>, <<97, 0, 97>>}

\* Info logs the driver may hold, as bytes: empty, 'E' and a byte that is
\* never valid UTF-8, 'E' and U+00E9 in its two bytes.
Logs == {<<>>, <<69, 255>>, <<69, 195, 169>>}

\* The log of warnings a successful compile or link may leave, and the log a
\* shader holds after the driver compiled it again at link time.
LateLog == <<69, 255>>

\* What the driver does with one create+compile (or create+link): whether
\* the object name is allocated, the status it reports, the log it holds,
\* and for a link the positions in the program's attached list of the
\* shaders whose info log the driver rewrites while linking.
DriverOutcomes ==
    {[alloc |-> FALSE, status |-> FALSE, hasLog |-> FALSE, log |-> <<>>, late |-> {}],
     [alloc |-> TRUE, status |-> TRUE, hasLog |-> FALSE, log |-> <<>>, late |-> {}],
     [alloc |-> TRUE, status |-> TRUE, hasLog |-> TRUE, log |-> LateLog, late |-> {}],
     [alloc |-> TRUE, status |-> FALSE, hasLog |-> FALSE, log |-> <<>>, late |-> {}]}
    \cup {[alloc |-> TRUE, status |-> FALSE, hasLog |-> TRUE, log |-> l, late |-> {}] :
            l \in Logs}

\* What the driver does with the create+link of a program with n attached
\* shaders.
LinkOutcomes(n) ==
    UNION {{[d EXCEPT !.late = w] : w \in IF d.alloc THEN SUBSET (1..n) ELSE {{}}} :
            d \in DriverOutcomes}

\* Entries of a SourceCompiler request, with what the driver does with each
\* (a source CString::new rejects never reaches the driver).
ReqTypes == {"Vertex", "Fragment"}

ReqSources == {<<97>>, <<97, 0, 97>>}

NoOutcome == [alloc |-> FALSE, status |-> FALSE, hasLog |-> FALSE, log |-> <<>>, late |-> {}]

\* ------------------------------------------------------------ helpers
RECURSIVE Zeros(_)
Zeros(n) == IF n <= 0 THEN <<>> ELSE <<0>> \o Zeros(n - 1)

Min(a, b) == IF a < b THEN a ELSE b

Range(s) == {s[i] : i \in 1..Len(s)}

Call(f, a, b, s) == [f |-> f, a |-> a, b |-> b, s |-> s]

\* An entry of the driver's object table: kind "free" is a name never handed
\* out; gone marks an object the driver has destroyed; delReq counts the
\* delete requests the name has received.
FreeObj == [kind |-> "free", gone |-> FALSE, compiled |-> FALSE, linked |-> FALSE,
            attached |-> <<>>, delReq |-> 0, hasLog |-> FALSE, log |-> <<>>]

Log(g, c) == [g EXCEPT !.calls = Append(g.calls, c)]

\* An object the driver has destroyed: the name stays known, with its kind
\* and the number of delete requests it has received.
Destroyed(o) == [FreeObj EXCEPT !.kind = o.kind, !.gone = TRUE, !.delReq = o.delReq]

IsShader(os, h) == h \in Handles /\ os[h].kind = "shader" /\ ~os[h].gone

IsProgram(os, h) == h \in Handles /\ os[h].kind = "program" /\ ~os[h].gone

AttachedSomewhere(os, shader) ==
    \E p \in Handles : IsProgram(os, p) /\ shader \in Range(os[p].attached)

\* A shader flagged for deletion is destroyed once no program holds it.
RECURSIVE SweepFrom(_, _)
SweepFrom(os, h) ==
    IF h > MaxHandles THEN os
    ELSE SweepFrom(IF IsShader(os, h) /\ os[h].delReq > 0 /\ ~AttachedSomewhere(os, h)
                   THEN [os EXCEPT ![h] = Destroyed(@)] ELSE os,
                   h + 1)

Sweep(os) == SweepFrom(os, 1)

\* Destroying a program object detaches its shaders.
DestroyProgram(os, program) == Sweep([os EXCEPT ![program] = Destroyed(@)])

\* ------------------------------------------------ the GL driver calls
\* g = [objs, active, next, calls]: the object table, the current-program
\* slot, the next unused object name and the calls issued so far.

\* gl::CreateShader(type): a fresh non-zero name, or 0 when the driver fails.
GlCreateShader(g, type, alloc) ==
    LET g1 == Log(g, Call("CreateShader", type, 0, <<>>))
    IN IF alloc
       THEN [g |-> [g1 EXCEPT !.objs[g.next] = [FreeObj EXCEPT !.kind = "shader"],
                              !.next = g.next + 1],
             ret |-> g.next]
       ELSE [g |-> g1, ret |-> 0]

\* The driver reads the single source string up to its terminating NUL.
RECURSIVE UntilNul(_)
UntilNul(bytes) ==
    IF bytes = <<>> \/ Head(bytes) = 0 THEN <<>>
    ELSE <<Head(bytes)>> \o UntilNul(Tail(bytes))

\* gl::ShaderSource(shader, 1, &ptr, null)
GlShaderSource(g, shader, cstr) ==
    Log(g, Call("ShaderSource", shader, 1, UntilNul(cstr)))

\* gl::CompileShader(shader): the driver records status and info log.
GlCompileShader(g, shader, d) ==
    LET g1 == Log(g, Call("CompileShader", shader, 0, <<>>))
    IN IF IsShader(g.objs, shader)
       THEN [g1 EXCEPT !.objs[shader].compiled = d.status,
                       !.objs[shader].hasLog = d.hasLog,
                       !.objs[shader].log = d.log]
       ELSE g1

\* Length the driver reports for INFO_LOG_LENGTH: characters plus the
\* terminating NUL, 0 when the object has no info log.
InfoLogLength(o) == IF o.hasLog THEN Len(o.log) + 1 ELSE 0

\* gl::GetShaderiv(shader, pname, &mut out): on an invalid name the driver
\* raises an error and leaves `out` as it was.
GlGetShaderiv(g, shader, pname, out) ==
    LET g1 == Log(g, Call("GetShaderiv", shader, pname, <<>>))
    IN IF IsShader(g.objs, shader)
       THEN [g |-> g1,
             ret |-> IF pname = COMPILE_STATUS
                     THEN (IF g.objs[shader].compiled THEN GL_TRUE ELSE GL_FALSE)
                     ELSE InfoLogLength(g.objs[shader])]
       ELSE [g |-> g1, ret |-> out]

\* What Get*InfoLog writes into a buffer of bufSize bytes: at most
\* bufSize - 1 characters of the log and a terminating NUL; the bytes after
\* them keep their value.
WriteInfoLog(o, bufSize, buf) ==
    IF bufSize <= 0 THEN buf
    ELSE LET n == Min(bufSize - 1, IF o.hasLog THEN Len(o.log) ELSE 0)
         IN [i \in 1..Len(buf) |->
                IF i <= n THEN o.log[i] ELSE IF i = n + 1 THEN 0 ELSE buf[i]]

\* gl::GetShaderInfoLog(shader, len, null, buf)
GlGetShaderInfoLog(g, shader, bufSize, buf) ==
    LET g1 == Log(g, Call("GetShaderInfoLog", shader, bufSize, <<>>))
    IN IF IsShader(g.objs, shader)
       THEN [g |-> g1, ret |-> WriteInfoLog(g.objs[shader], bufSize, buf)]
       ELSE [g |-> g1, ret |-> buf]

\* gl::DeleteShader(shader): 0 is silently ignored; a shader attached to a
\* program is only flagged, any other is destroyed.
GlDeleteShader(g, shader) ==
    LET g1 == Log(g, Call("DeleteShader", shader, 0, <<>>))
    IN IF shader \in Handles /\ g.objs[shader].kind # "free"
       THEN [g1 EXCEPT !.objs = Sweep([g.objs EXCEPT ![shader].delReq = @ + 1])]
       ELSE g1

\* gl::CreateProgram()
GlCreateProgram(g, alloc) ==
    LET g1 == Log(g, Call("CreateProgram", 0, 0, <<>>))
    IN IF alloc
       THEN [g |-> [g1 EXCEPT !.objs[g.next] = [FreeObj EXCEPT !.kind = "program"],
                              !.next = g.next + 1],
             ret |-> g.next]
       ELSE [g |-> g1, ret |-> 0]

\* gl::AttachShader(program, shader)
GlAttachShader(g, program, shader) ==
    LET g1 == Log(g, Call("AttachShader", program, shader, <<>>))
    IN IF IsProgram(g.objs, program) /\ IsShader(g.objs, shader)
       THEN [g1 EXCEPT !.objs[program].attached = Append(@, shader)]
       ELSE g1

\* The shaders at the positions `late` of the attached list att, from
\* position i on, compiled again by the driver: each now holds LateLog.
RECURSIVE LateCompile(_, _, _, _)
LateCompile(os, att, late, i) ==
    IF i > Len(att) THEN os
    ELSE LateCompile(IF i \in late
                     THEN [os EXCEPT ![att[i]].hasLog = TRUE, ![att[i]].log = LateLog]
                     ELSE os,
                     att, late, i + 1)

\* gl::LinkProgram(program): sets the program's link status and info log;
\* the driver may compile attached shaders again while it links, which
\* replaces their info log.
GlLinkProgram(g, program, d) ==
    LET g1 == Log(g, Call("LinkProgram", program, 0, <<>>))
    IN IF IsProgram(g.objs, program)
       THEN [g1 EXCEPT !.objs =
                LateCompile([g.objs EXCEPT ![program].linked = d.status,
                                           ![program].hasLog = d.hasLog,
                                           ![program].log = d.log],
                            g.objs[program].attached, d.late, 1)]
       ELSE g1

\* gl::GetProgramiv(program, pname, &mut out)
GlGetProgramiv(g, program, pname, out) ==
    LET g1 == Log(g, Call("GetProgramiv", program, pname, <<>>))
    IN IF IsProgram(g.objs, program)
       THEN [g |-> g1,
             ret |-> IF pname = LINK_STATUS
                     THEN (IF g.objs[program].linked THEN GL_TRUE ELSE GL_FALSE)
                     ELSE InfoLogLength(g.objs[program])]
       ELSE [g |-> g1, ret |-> out]

\* gl::GetProgramInfoLog(program, len, null, buf)
GlGetProgramInfoLog(g, program, bufSize, buf) ==
    LET g1 == Log(g, Call("GetProgramInfoLog", program, bufSize, <<>>))
    IN IF IsProgram(g.objs, program)
       THEN [g |-> g1, ret |-> WriteInfoLog(g.objs[program], bufSize, buf)]
       ELSE [g |-> g1, ret |-> buf]

\* gl::DetachShader(program, shader): the shader leaves the program; a
\* shader flagged for deletion is destroyed once nothing holds it.
GlDetachShader(g, program, shader) ==
    LET g1 == Log(g, Call("DetachShader", program, shader, <<>>))
    IN IF IsProgram(g.objs, program) /\ shader \in Range(g.objs[program].attached)
       THEN [g1 EXCEPT !.objs =
                Sweep([g.objs EXCEPT ![program].attached =
                          SelectSeq(@, LAMBDA h : h # shader)])]
       ELSE g1

\* gl::DrawArrays(TRIANGLES, 0, 3): the call is recorded with the program
\* it runs with, the current program (0 when there is none).
GlDrawArrays(g) == Log(g, Call("DrawArrays", g.active, 0, <<>>))

\* The slot moves to `program`; a program flagged for deletion is destroyed
\* when it stops being current.
SetCurrent(g, program) ==
    IF g.active # program /\ IsProgram(g.objs, g.active) /\ g.objs[g.active].delReq > 0
    THEN [g EXCEPT !.active = program, !.objs = DestroyProgram(g.objs, g.active)]
    ELSE [g EXCEPT !.active = program]

\* gl::UseProgram(program): 0 empties the slot; a linked program object
\* becomes current; anything else is an error that leaves the slot alone.
GlUseProgram(g, program) ==
    LET g1 == Log(g, Call("UseProgram", program, 0, <<>>))
    IN IF program = 0 THEN SetCurrent(g1, 0)
       ELSE IF IsProgram(g.objs, program) /\ g.objs[program].linked
            THEN SetCurrent(g1, program)
            ELSE g1

\* gl::DeleteProgram(program): 0 is silently ignored; the current program is
\* only flagged, any other is destroyed.
GlDeleteProgram(g, program) ==
    LET g1 == Log(g, Call("DeleteProgram", program, 0, <<>>))
        os == [g.objs EXCEPT ![program].delReq = @ + 1]
    IN IF program \in Handles /\ g.objs[program].kind # "free"
       THEN IF IsProgram(g.objs, program) /\ g.active # program
            THEN [g1 EXCEPT !.objs = DestroyProgram(os, program)]
            ELSE [g1 EXCEPT !.objs = os]
       ELSE g1

\* ------------------------------------------------- std conversions
\* ffi::CString::new(source): fails on any 0 byte, else appends the NUL.
CStringNew(source) ==
    IF \E i \in 1..Len(source) : source[i] = 0
    THEN [ok |-> FALSE, bytes |-> <<>>]
    ELSE [ok |-> TRUE, bytes |-> Append(source, 0)]

\* ffi::CStr::from_bytes_with_nul(buf): exactly one NUL, in last position.
CStrFromBytesWithNul(buf) ==
    IF Len(buf) >= 1 /\ buf[Len(buf)] = 0 /\ \A i \in 1..(Len(buf) - 1) : buf[i] # 0
    THEN [ok |-> TRUE, bytes |-> SubSeq(buf, 1, Len(buf) - 1)]
    ELSE [ok |-> FALSE, bytes |-> <<>>]

\* UTF-8: the number of bytes of the sequence a lead byte opens; 0 for a
\* byte that opens none (a continuation byte, 0xC0, 0xC1, 0xF5..0xFF).
Utf8Width(b) ==
    IF b < 128 THEN 1
    ELSE IF 194 <= b /\ b <= 223 THEN 2
    ELSE IF 224 <= b /\ b <= 239 THEN 3
    ELSE IF 240 <= b /\ b <= 244 THEN 4
    ELSE 0

Utf8Continuation(b) == 128 <= b /\ b <= 191

\* The second byte a lead byte admits (no overlong form, no surrogate,
\* nothing above U+10FFFF).
Utf8Second(b1, b2) ==
    CASE b1 = 224 -> 160 <= b2 /\ b2 <= 191
      [] b1 = 237 -> 128 <= b2 /\ b2 <= 159
      [] b1 = 240 -> 144 <= b2 /\ b2 <= 191
      [] b1 = 244 -> 128 <= b2 /\ b2 <= 143
      [] OTHER -> Utf8Continuation(b2)

\* How many leading bytes of a non-empty byte string belong to its first
\* sequence: the whole sequence when it is well formed, else the longest
\* prefix of one (at least the first byte).
Utf8Accepted(bytes) ==
    LET w == Utf8Width(bytes[1])
    IN IF w <= 1 THEN 1
       ELSE IF Len(bytes) < 2 \/ ~Utf8Second(bytes[1], bytes[2]) THEN 1
       ELSE IF w = 2 THEN 2
       ELSE IF Len(bytes) < 3 \/ ~Utf8Continuation(bytes[3]) THEN 2
       ELSE IF w = 3 THEN 3
       ELSE IF Len(bytes) < 4 \/ ~Utf8Continuation(bytes[4]) THEN 3
       ELSE 4

\* The byte string starts with a well-formed sequence.
Utf8Complete(bytes) ==
    Utf8Width(bytes[1]) # 0 /\ Utf8Accepted(bytes) = Utf8Width(bytes[1])

\* The character a well-formed sequence of w bytes encodes.
Utf8Char(bytes, w) ==
    CASE w = 1 -> bytes[1]
      [] w = 2 -> (bytes[1] - 192) * 64 + (bytes[2] - 128)
      [] w = 3 -> (bytes[1] - 224) * 4096 + (bytes[2] - 128) * 64 + (bytes[3] - 128)
      [] w = 4 -> (bytes[1] - 240) * 262144 + (bytes[2] - 128) * 4096
                    + (bytes[3] - 128) * 64 + (bytes[4] - 128)

\* str::from_utf8(bytes).is_ok()
RECURSIVE Utf8Valid(_)
Utf8Valid(bytes) ==
    IF bytes = <<>> THEN TRUE
    ELSE /\ Utf8Complete(bytes)
         /\ Utf8Valid(SubSeq(bytes, Utf8Accepted(bytes) + 1, Len(bytes)))

\* CStr::to_string_lossy().to_string(): the text as characters; each
\* well-formed sequence gives its character, each ill-formed or truncated
\* one gives a single U+FFFD.
RECURSIVE ToStringLossy(_)
ToStringLossy(bytes) ==
    IF bytes = <<>> THEN <<>>
    ELSE <<IF Utf8Complete(bytes) THEN Utf8Char(bytes, Utf8Accepted(bytes))
           ELSE REPLACEMENT_CHARACTER>>
         \o ToStringLossy(SubSeq(bytes, Utf8Accepted(bytes) + 1, Len(bytes)))

\* ------------------------------------------------------ results
\* wrap: the SourceCompilerError variant ("" outside SourceCompiler);
\* tag: "Ok" or the error variant; id: the handle of an Ok value.
Res(wrap, tag, id, log) == [wrap |-> wrap, tag |-> tag, id |-> id, log |-> log]

Ok(id) == Res("", "Ok", id, <<>>)

Err(tag, log) == Res("", tag, 0, log)


\* The conversion with the two tessellation stages exchanged.
GLenumFromSwapped(shader_type) ==
    CASE shader_type = "Vertex" -> VERTEX_SHADER
      [] shader_type = "Fragment" -> FRAGMENT_SHADER
      [] shader_type = "Geometry" -> GEOMETRY_SHADER
      [] shader_type = "TessControl" -> TESS_EVALUATION_SHADER
      [] shader_type = "TessEvaluation" -> TESS_CONTROL_SHADER
      [] shader_type = "Compute" -> COMPUTE_SHADER

\* impl From<ShaderType> for GLenum
GLenumFrom(shader_type) ==
    CASE shader_type = "Vertex" -> VERTEX_SHADER
      [] shader_type = "Fragment" -> FRAGMENT_SHADER
      [] shader_type = "Geometry" -> GEOMETRY_SHADER
      [] shader_type = "TessControl" -> TESS_CONTROL_SHADER
      [] shader_type = "TessEvaluation" -> TESS_EVALUATION_SHADER
      [] shader_type = "Compute" -> COMPUTE_SHADER

\* ------------------------------------------------------ Shader
\* A drop that releases the object twice (an explicit delete next to the
\* automatic one).
ShaderDropTwice(g, id) == GlDeleteShader(GlDeleteShader(g, id), id)

\* impl Drop for Shader
ShaderDrop(g, id) == GlDeleteShader(g, id)

\* Shader::new returning the shader without looking at the compile status.
ShaderNewNoStatusCheck(g, ty, source, d) ==
    LET c_source == CStringNew(source)
        cr == GlCreateShader(g, GLenumFrom(ty), d.alloc)
    IN IF ~c_source.ok THEN [g |-> g, res |-> Err("InvalidSource", <<>>)]
       ELSE [g |-> GlCompileShader(GlShaderSource(cr.g, cr.ret, c_source.bytes), cr.ret, d),
             res |-> Ok(cr.ret)]

\* Shader::new decoding the log strictly: bytes that are not valid UTF-8
\* give InvalidInfoLog.
ShaderNewStrictUtf8(g, ty, source, d) ==
    LET c_source == CStringNew(source)
    IN IF ~c_source.ok THEN [g |-> g, res |-> Err("InvalidSource", <<>>)]
       ELSE
        LET cr == GlCreateShader(g, GLenumFrom(ty), d.alloc)
            id == cr.ret
            g3 == GlCompileShader(GlShaderSource(cr.g, id, c_source.bytes), id, d)
            st == GlGetShaderiv(g3, id, COMPILE_STATUS, GL_FALSE)
        IN IF st.ret = GL_TRUE THEN [g |-> st.g, res |-> Ok(id)]
           ELSE
            LET ln == GlGetShaderiv(st.g, id, INFO_LOG_LENGTH, 0)
                bf == GlGetShaderInfoLog(ln.g, id, ln.ret, Zeros(ln.ret))
                cs == CStrFromBytesWithNul(bf.ret)
                gd == ShaderDrop(bf.g, id)
            IN IF ~cs.ok \/ ~Utf8Valid(cs.bytes)
               THEN [g |-> gd, res |-> Err("InvalidInfoLog", <<>>)]
               ELSE [g |-> gd, res |-> Err("CompileError", ToStringLossy(cs.bytes))]

\* Shader::new cutting the log at its first byte that is not ASCII.
RECURSIVE AsciiPrefix(_)
AsciiPrefix(bytes) ==
    IF bytes = <<>> \/ Head(bytes) >= 128 THEN <<>>
    ELSE <<Head(bytes)>> \o AsciiPrefix(Tail(bytes))

ShaderNewTruncatesLog(g, ty, source, d) ==
    LET c_source == CStringNew(source)
    IN IF ~c_source.ok THEN [g |-> g, res |-> Err("InvalidSource", <<>>)]
       ELSE
        LET cr == GlCreateShader(g, GLenumFrom(ty), d.alloc)
            id == cr.ret
            g3 == GlCompileShader(GlShaderSource(cr.g, id, c_source.bytes), id, d)
            st == GlGetShaderiv(g3, id, COMPILE_STATUS, GL_FALSE)
        IN IF st.ret = GL_TRUE THEN [g |-> st.g, res |-> Ok(id)]
           ELSE
            LET ln == GlGetShaderiv(st.g, id, INFO_LOG_LENGTH, 0)
                bf == GlGetShaderInfoLog(ln.g, id, ln.ret, Zeros(ln.ret))
                cs == CStrFromBytesWithNul(bf.ret)
                gd == ShaderDrop(bf.g, id)
            IN IF ~cs.ok THEN [g |-> gd, res |-> Err("InvalidInfoLog", <<>>)]
               ELSE [g |-> gd, res |-> Err("CompileError", AsciiPrefix(cs.bytes))]

\* Shader::new reporting a compile failure without a readable log as
\* CompileError with an empty log.
ShaderNewEmptyLogOnNoLog(g, ty, source, d) ==
    LET c_source == CStringNew(source)
    IN IF ~c_source.ok THEN [g |-> g, res |-> Err("InvalidSource", <<>>)]
       ELSE
        LET cr == GlCreateShader(g, GLenumFrom(ty), d.alloc)
            id == cr.ret
            g3 == GlCompileShader(GlShaderSource(cr.g, id, c_source.bytes), id, d)
            st == GlGetShaderiv(g3, id, COMPILE_STATUS, GL_FALSE)
        IN IF st.ret = GL_TRUE THEN [g |-> st.g, res |-> Ok(id)]
           ELSE
            LET ln == GlGetShaderiv(st.g, id, INFO_LOG_LENGTH, 0)
                bf == GlGetShaderInfoLog(ln.g, id, ln.ret, Zeros(ln.ret))
                cs == CStrFromBytesWithNul(bf.ret)
                gd == ShaderDrop(bf.g, id)
            IN [g |-> gd, res |-> Err("CompileError", ToStringLossy(cs.bytes))]

\* Shader::new allocating the shader object before it validates the source.
ShaderNewAllocFirst(g, ty, source, d) ==
    LET cr == GlCreateShader(g, GLenumFrom(ty), TRUE)
        c_source == CStringNew(source)
    IN IF ~c_source.ok
       THEN [g |-> ShaderDrop(cr.g, cr.ret), res |-> Err("InvalidSource", <<>>)]
       ELSE [g |-> GlCompileShader(GlShaderSource(cr.g, cr.ret, c_source.bytes), cr.ret,
                                   [d EXCEPT !.status = TRUE]),
             res |-> Ok(cr.ret)]

\* Shader::new holding a bare handle instead of an owning value: nothing is
\* released on the error returns.
ShaderNewLeak(g, ty, source, d) ==
    LET c_source == CStringNew(source)
    IN IF ~c_source.ok THEN [g |-> g, res |-> Err("InvalidSource", <<>>)]
       ELSE
        LET cr == GlCreateShader(g, GLenumFrom(ty), d.alloc)
            id == cr.ret
            g2 == GlShaderSource(cr.g, id, c_source.bytes)
            g3 == GlCompileShader(g2, id, d)
            st == GlGetShaderiv(g3, id, COMPILE_STATUS, GL_FALSE)
        IN IF st.ret = GL_TRUE THEN [g |-> st.g, res |-> Ok(id)]
           ELSE
            LET ln == GlGetShaderiv(st.g, id, INFO_LOG_LENGTH, 0)
                bf == GlGetShaderInfoLog(ln.g, id, ln.ret, Zeros(ln.ret))
                cs == CStrFromBytesWithNul(bf.ret)
            IN IF ~cs.ok THEN [g |-> bf.g, res |-> Err("InvalidInfoLog", <<>>)]
               ELSE [g |-> bf.g, res |-> Err("CompileError", ToStringLossy(cs.bytes))]

\* Shader::new(ty, source), d being what the driver does with it.  The
\* local `shader` is an owning value: every return after its construction
\* that does not move it out drops it.
ShaderNew(g, ty, source, d) ==
    LET c_source == CStringNew(source)
    IN IF ~c_source.ok THEN [g |-> g, res |-> Err("InvalidSource", <<>>)]
       ELSE
        LET cr == GlCreateShader(g, GLenumFrom(ty), d.alloc)
            id == cr.ret
            g2 == GlShaderSource(cr.g, id, c_source.bytes)
            g3 == GlCompileShader(g2, id, d)
            st == GlGetShaderiv(g3, id, COMPILE_STATUS, GL_FALSE)
        IN IF st.ret = GL_TRUE THEN [g |-> st.g, res |-> Ok(id)]
           ELSE
            LET ln == GlGetShaderiv(st.g, id, INFO_LOG_LENGTH, 0)
                bf == GlGetShaderInfoLog(ln.g, id, ln.ret, Zeros(ln.ret))
                cs == CStrFromBytesWithNul(bf.ret)
                gd == ShaderDrop(bf.g, id)
            IN IF ~cs.ok THEN [g |-> gd, res |-> Err("InvalidInfoLog", <<>>)]
               ELSE [g |-> gd, res |-> Err("CompileError", ToStringLossy(cs.bytes))]

\* ------------------------------------------------------ Program
\* activate that binds only when no program is current.
ProgramActivateIfNone(g, id) == IF g.active = 0 THEN GlUseProgram(g, id) ELSE g

\* Program::activate
ProgramActivate(g, id) == GlUseProgram(g, id)

\* deactivate as a compare-and-clear: unbinds only when this program is the
\* current one.
ProgramDeactivateIfCurrent(g, id) == IF g.active = id THEN GlUseProgram(g, 0) ELSE g

\* Program::deactivate
ProgramDeactivate(g, id) == GlUseProgram(g, 0)

\* A drop that unbinds only when this program is the current one.
ProgramDropIfCurrent(g, id) ==
    GlDeleteProgram(IF g.active = id THEN GlUseProgram(g, 0) ELSE g, id)

\* A drop that deletes the object first and deactivates afterwards.
ProgramDropDeleteFirst(g, id) == GlUseProgram(GlDeleteProgram(g, id), 0)

\* A drop that deletes the object without deactivating first.
ProgramDropNoDeactivate(g, id) == GlDeleteProgram(g, id)

\* impl Drop for Program
ProgramDrop(g, id) == GlDeleteProgram(ProgramDeactivate(g, id), id)

\* for shader in shaders { gl::AttachShader(program.id(), shader.id()) }
RECURSIVE AttachAll(_, _, _)
AttachAll(g, program, shaders) ==
    IF shaders = <<>> THEN g
    ELSE AttachAll(GlAttachShader(g, program, Head(shaders)), program, Tail(shaders))

\* link leaving the program it linked bound as the current program.
ProgramLinkBindsProgram(g, shaders, d) ==
    LET cr == GlCreateProgram(g, d.alloc)
        id == cr.ret
        g3 == GlLinkProgram(AttachAll(cr.g, id, shaders), id, d)
        st == GlGetProgramiv(g3, id, LINK_STATUS, GL_FALSE)
    IN IF st.ret = GL_TRUE THEN [g |-> GlUseProgram(st.g, id), res |-> Ok(id)]
       ELSE [g |-> GlDeleteProgram(GlUseProgram(st.g, 0), id), res |-> Err("InvalidInfoLog", <<>>)]

\* link refusing an empty input before it talks to the driver.
ProgramLinkRejectsEmpty(g, shaders, d) ==
    IF shaders = <<>> THEN [g |-> g, res |-> Err("LinkError", <<>>)]
    ELSE
        LET cr == GlCreateProgram(g, d.alloc)
            id == cr.ret
            g3 == GlLinkProgram(AttachAll(cr.g, id, shaders), id, d)
            st == GlGetProgramiv(g3, id, LINK_STATUS, GL_FALSE)
        IN IF st.ret = GL_TRUE THEN [g |-> st.g, res |-> Ok(id)]
           ELSE [g |-> GlDeleteProgram(GlUseProgram(st.g, 0), id),
                 res |-> Err("InvalidInfoLog", <<>>)]

\* link returning the program without looking at the link status.
ProgramLinkNoStatusCheck(g, shaders, d) ==
    LET cr == GlCreateProgram(g, d.alloc)
    IN [g |-> GlLinkProgram(AttachAll(cr.g, cr.ret, shaders), cr.ret, d), res |-> Ok(cr.ret)]

\* link requesting the link before it attaches the shaders.
ProgramLinkAttachAfter(g, shaders, d) ==
    LET cr == GlCreateProgram(g, d.alloc)
        id == cr.ret
        g2 == GlLinkProgram(cr.g, id, d)
        g3 == AttachAll(g2, id, shaders)
        st == GlGetProgramiv(g3, id, LINK_STATUS, GL_FALSE)
    IN IF st.ret = GL_TRUE THEN [g |-> st.g, res |-> Ok(id)]
       ELSE [g |-> GlDeleteProgram(GlUseProgram(st.g, 0), id), res |-> Err("InvalidInfoLog", <<>>)]

\* link taking the shaders over: once linked it deletes each input shader.
RECURSIVE DeleteAll(_, _)
DeleteAll(g, shaders) ==
    IF shaders = <<>> THEN g
    ELSE DeleteAll(GlDeleteShader(g, Head(shaders)), Tail(shaders))

ProgramLinkDeletesShaders(g, shaders, d) ==
    LET cr == GlCreateProgram(g, d.alloc)
        id == cr.ret
        g2 == AttachAll(cr.g, id, shaders)
        g3 == GlLinkProgram(g2, id, d)
        st == GlGetProgramiv(g3, id, LINK_STATUS, GL_FALSE)
        g4 == DeleteAll(st.g, shaders)
    IN IF st.ret = GL_TRUE THEN [g |-> g4, res |-> Ok(id)]
       ELSE [g |-> GlDeleteProgram(GlUseProgram(g4, 0), id), res |-> Err("InvalidInfoLog", <<>>)]

\* Program::link(shaders), shaders being the handles of the Shader values.
\* The local `program` is an owning value, dropped on both error returns.
ProgramLink(g, shaders, d) ==
    LET cr == GlCreateProgram(g, d.alloc)
        id == cr.ret
        g2 == AttachAll(cr.g, id, shaders)
        g3 == GlLinkProgram(g2, id, d)
        st == GlGetProgramiv(g3, id, LINK_STATUS, GL_FALSE)
    IN IF st.ret = GL_TRUE THEN [g |-> st.g, res |-> Ok(id)]
       ELSE
        LET ln == GlGetProgramiv(st.g, id, INFO_LOG_LENGTH, 0)
            bf == GlGetProgramInfoLog(ln.g, id, ln.ret, Zeros(ln.ret))
            cs == CStrFromBytesWithNul(bf.ret)
            gd == ProgramDrop(bf.g, id)
        IN IF ~cs.ok THEN [g |-> gd, res |-> Err("InvalidInfoLog", <<>>)]
           ELSE [g |-> gd, res |-> Err("LinkError", ToStringLossy(cs.bytes))]

\* ------------------------------------------------------ SourceCompiler
\* Dropping the Vec<Shader> drops its elements front to back.
RECURSIVE DropShaders(_, _)
DropShaders(g, shaders) ==
    IF shaders = <<>> THEN g
    ELSE DropShaders(ShaderDrop(g, Head(shaders)), Tail(shaders))

\* The loop collecting every shader it can and reporting the first error
\* at the end, instead of leaving on it.
KeepFirstError(r, rest) ==
    IF r.res.tag # "Ok"
    THEN [rest EXCEPT !.res = [r.res EXCEPT !.wrap = "ShaderCreationError"]]
    ELSE rest

RECURSIVE CompileLoopKeepGoing(_, _, _, _)
KeepGoingFrom(r, req, ds, shaders) ==
    KeepFirstError(r, CompileLoopKeepGoing(r.g, req, ds,
                        IF r.res.tag = "Ok" THEN Append(shaders, r.res.id) ELSE shaders))

CompileLoopKeepGoing(g, req, ds, shaders) ==
    IF req = <<>> THEN [g |-> g, res |-> Ok(0), shaders |-> shaders]
    ELSE KeepGoingFrom(ShaderNew(g, Head(req).ty, Head(req).source, Head(ds)),
                       Tail(req), Tail(ds), shaders)

RECURSIVE CompileLoop(_, _, _, _)

\* One turn of the loop, r being the result of Shader::new: the `?` returns
\* the wrapped error, otherwise the shader is pushed and the loop goes on.
CompilePush(r, req, ds, shaders) ==
    IF r.res.tag # "Ok"
    THEN [g |-> r.g,
          res |-> [r.res EXCEPT !.wrap = "ShaderCreationError"],
          shaders |-> shaders]
    ELSE CompileLoop(r.g, req, ds, Append(shaders, r.res.id))

\* The for loop of SourceCompiler::compile: req are the entries left, ds
\* what the driver does with each, shaders the Vec built so far.
CompileLoop(g, req, ds, shaders) ==
    IF req = <<>> THEN [g |-> g, res |-> Ok(0), shaders |-> shaders]
    ELSE CompilePush(ShaderNew(g, Head(req).ty, Head(req).source, Head(ds)),
                     Tail(req), Tail(ds), shaders)

\* The return tagging a link error as a shader error and losing its log.
CompileReturnWrongTag(lk, shaders) ==
    [g |-> DropShaders(lk.g, shaders),
     res |-> IF lk.res.tag = "Ok" THEN lk.res
             ELSE Res("ShaderCreationError", "InvalidInfoLog", 0, <<>>)]

\* The return of SourceCompiler::compile, lk being the result of
\* Program::link: the error is wrapped, and `shaders` is dropped.
CompileReturn(lk, shaders) ==
    [g |-> DropShaders(lk.g, shaders),
     res |-> IF lk.res.tag = "Ok" THEN lk.res
             ELSE [lk.res EXCEPT !.wrap = "ProgramCreationError"]]

\* A compile whose early return forgets the shaders built so far.
CompileLinkLeaksOnEarlyReturn(lp, dl) ==
    IF lp.res.tag # "Ok" THEN [g |-> lp.g, res |-> lp.res]
    ELSE CompileReturn(ProgramLink(lp.g, lp.shaders, dl), lp.shaders)

\* A compile that links whatever the loop built, failed entry or not.
CompileLinkAnyway(lp, dl) ==
    CompileReturn(ProgramLink(lp.g, lp.shaders, dl), lp.shaders)

\* After the loop, lp being its result: an early return drops the shaders
\* built so far, otherwise they are handed to Program::link.
CompileLink(lp, dl) ==
    IF lp.res.tag # "Ok" THEN [g |-> DropShaders(lp.g, lp.shaders), res |-> lp.res]
    ELSE CompileReturn(ProgramLink(lp.g, lp.shaders, dl), lp.shaders)

\* Two entries of the request name the same stage kind.
DuplicateKinds(shader_sources) ==
    \E j, k \in 1..Len(shader_sources) :
        j < k /\ shader_sources[j].ty = shader_sources[k].ty

\* A compile that refuses a request naming a stage kind twice.
SourceCompilerCompileRejectsDuplicates(g, shader_sources, ds, dl) ==
    IF DuplicateKinds(shader_sources)
    THEN [g |-> g, res |-> Res("ProgramCreationError", "LinkError", 0, <<>>)]
    ELSE CompileLink(CompileLoop(g, shader_sources, ds, <<>>), dl)

\* SourceCompiler::compile(shader_sources); `shaders` is dropped when the
\* function returns, on every path.
SourceCompilerCompile(g, shader_sources, ds, dl) ==
    CompileLink(CompileLoop(g, shader_sources, ds, <<>>), dl)

\* ------------------------------------------------------ raw-GL examples
\* VERTEX_SHADER_SRC / FRAGMENT_SHADER_SRC: constant sources without NUL.
ShaderSrc == <<97>>

\* Err(String::from_utf8(buffer).unwrap()): the error, or a panic when the
\* log is not valid UTF-8.
FromUtf8Err(buffer) ==
    IF Utf8Valid(buffer)
    THEN Err("Err", buffer)
    ELSE Res("", "Panic", 0, <<>>)

\* fn compile_shader(src, shader_type) of the examples
compile_shader(g, shader_type, d) ==
    LET cr == GlCreateShader(g, shader_type, d.alloc)
        shader == cr.ret
        g2 == GlShaderSource(cr.g, shader, CStringNew(ShaderSrc).bytes)
        g3 == GlCompileShader(g2, shader, d)
        st == GlGetShaderiv(g3, shader, COMPILE_STATUS, GL_FALSE)
    IN IF st.ret = GL_TRUE THEN [g |-> st.g, res |-> Ok(shader)]
       ELSE
        LET ln == GlGetShaderiv(st.g, shader, INFO_LOG_LENGTH, 0)
            bf == GlGetShaderInfoLog(ln.g, shader, ln.ret, Zeros(ln.ret))
        IN [g |-> bf.g, res |-> FromUtf8Err(SubSeq(bf.ret, 1, ln.ret - 1))]

\* link_program handing the program back whatever the link status.
link_program_ignores_status(g, vertex_shader_id, fragment_shader_id, d) ==
    LET cr == GlCreateProgram(g, d.alloc)
        g2 == GlAttachShader(cr.g, cr.ret, vertex_shader_id)
        g3 == GlAttachShader(g2, cr.ret, fragment_shader_id)
    IN [g |-> GlGetProgramiv(GlLinkProgram(g3, cr.ret, d), cr.ret, LINK_STATUS, GL_FALSE).g,
        res |-> Ok(cr.ret)]

\* fn link_program(vertex_shader_id, fragment_shader_id) of the examples
link_program(g, vertex_shader_id, fragment_shader_id, d) ==
    LET cr == GlCreateProgram(g, d.alloc)
        program == cr.ret
        g2 == GlAttachShader(cr.g, program, vertex_shader_id)
        g3 == GlAttachShader(g2, program, fragment_shader_id)
        g4 == GlLinkProgram(g3, program, d)
        st == GlGetProgramiv(g4, program, LINK_STATUS, GL_FALSE)
    IN IF st.ret = GL_TRUE THEN [g |-> st.g, res |-> Ok(program)]
       ELSE
        LET ln == GlGetProgramiv(st.g, program, INFO_LOG_LENGTH, 0)
            bf == GlGetProgramInfoLog(ln.g, program, ln.ret, Zeros(ln.ret))
        IN [g |-> bf.g, res |-> FromUtf8Err(SubSeq(bf.ret, 1, ln.ret - 1))]

\* fn cleanup_shader(shader, program) of the examples
cleanup_shader(g, shader, program) ==
    GlDeleteShader(GlDetachShader(g, program, shader), shader)

\* ------------------------------------------------------ GlError
\* Option<GlError>: None, or Some of a variant; code is the payload of
\* Unrecognized and 0 for the other variants.
None == [some |-> FALSE, variant |-> "", code |-> 0]

Some(variant, code) == [some |-> TRUE, variant |-> variant, code |-> code]

\* from_error_code with the two stack errors exchanged.
from_error_code_swaps_stack(error_code) ==
    CASE error_code = NO_ERROR -> None
      [] error_code = INVALID_ENUM -> Some("InvalidEnum", 0)
      [] error_code = INVALID_VALUE -> Some("InvalidValue", 0)
      [] error_code = INVALID_OPERATION -> Some("InvalidOperation", 0)
      [] error_code = STACK_OVERFLOW -> Some("StackUnderflow", 0)
      [] error_code = STACK_UNDERFLOW -> Some("StackOverflow", 0)
      [] error_code = OUT_OF_MEMORY -> Some("OutOfMemory", 0)
      [] error_code = INVALID_FRAMEBUFFER_OPERATION -> Some("InvalidFramebufferOperation", 0)
      [] OTHER -> Some("Unrecognized", error_code)

\* GlError::from_error_code(error_code)
from_error_code(error_code) ==
    CASE error_code = NO_ERROR -> None
      [] error_code = INVALID_ENUM -> Some("InvalidEnum", 0)
      [] error_code = INVALID_VALUE -> Some("InvalidValue", 0)
      [] error_code = INVALID_OPERATION -> Some("InvalidOperation", 0)
      [] error_code = STACK_OVERFLOW -> Some("StackOverflow", 0)
      [] error_code = STACK_UNDERFLOW -> Some("StackUnderflow", 0)
      [] error_code = OUT_OF_MEMORY -> Some("OutOfMemory", 0)
      [] error_code = INVALID_FRAMEBUFFER_OPERATION -> Some("InvalidFramebufferOperation", 0)
      [] OTHER -> Some("Unrecognized", error_code)

\* ------------------------------------------------------ state
\* objs, active, next: the driver; calls: the GL calls of the last API call;
\* shaders, programs: the live Shader and Program values; last: the last API
\* call; error_code, gl_error: the argument and the result of
\* GlError::from_error_code; example, pc, locals, event, frames: the example
\* program that runs, where its main() stands, its local handles, the last
\* window event it received and the frames it has drawn.
VARIABLES objs, active, next, calls, shaders, programs, last, error_code, gl_error, example, pc, locals, event, frames

vars == <<objs, active, next, calls, shaders, programs, last, error_code, gl_error, example, pc, locals, event, frames>>

drvVars == <<objs, active, next, calls>>

apiVars == <<shaders, programs, last>>

rawVars == <<example, pc, locals, event, frames>>

\* No example program runs.
NoExample ==
    /\ example = "none"
    /\ pc = "idle"
    /\ locals = [vertex_shader |-> 0, fragment_shader |-> 0, program |-> 0]
    /\ event = "none"
    /\ frames = 0

\* from_error_code has not run.
NotChecked == [some |-> FALSE, variant |-> "NotChecked", code |-> 0]

errVars == <<error_code, gl_error>>

\* The driver state an API call starts from; `calls` restarts at each call.
G == [objs |-> objs, active |-> active, next |-> next, calls |-> <<>>]

\* The last API call: its name, receiver and arguments, what the driver was
\* set to do (ds), the result, and the slot and next free name it started from.
Last(op, self, ty, source, shs, req, ds, res) ==
    [op |-> op, self |-> self, ty |-> ty, source |-> source, shs |-> shs,
     req |-> req, ds |-> ds, res |-> res, pre |-> [active |-> active, next |-> next]]

Commit(g) ==
    /\ objs' = g.objs
    /\ active' = g.active
    /\ next' = g.next
    /\ calls' = g.calls
    /\ UNCHANGED <<errVars, rawVars>>

Init ==
    /\ objs = [h \in Handles |-> FreeObj]
    /\ active = 0
    /\ next = 1
    /\ calls = <<>>
    /\ shaders = {}
    /\ programs = {}
    /\ last = Last("init", 0, "", <<>>, <<>>, <<>>, <<>>, Res("", "None", 0, <<>>))
    /\ error_code = NO_ERROR
    /\ gl_error = NotChecked
    /\ NoExample

\* Sequences of n distinct live Shader values (a slice of Shader values).
Slices(n) == {q \in [1..n -> shaders] : \A i, j \in 1..n : q[i] = q[j] => i = j}

\* What the driver may do with a source: one that CString::new rejects never
\* reaches it.
SourceOutcomes(source) == IF CStringNew(source).ok THEN DriverOutcomes ELSE {NoOutcome}

\* The driver accepts the entry: the source reaches it, the name is
\* allocated and the compile status is success.
Accepts(e, d) == CStringNew(e.source).ok /\ d.alloc /\ d.status

\* Driver outcomes for a request, from entry i on: the driver is asked
\* about an entry only when it accepted all the entries before it, and
\* about the link only when it accepted them all (last position).
RECURSIVE OutcomesFrom(_, _)
OutcomesFrom(req, i) ==
    IF i > Len(req) THEN {<<d>> : d \in LinkOutcomes(Len(req))}
    ELSE UNION {IF Accepts(req[i], d)
                THEN {<<d>> \o t : t \in OutcomesFrom(req, i + 1)}
                ELSE {<<d>> \o [j \in 1..(Len(req) + 1 - i) |-> NoOutcome]} :
                d \in SourceOutcomes(req[i].source)}

RequestOutcomes(req) == OutcomesFrom(req, 1)

\* let s = Shader::new(ty, source)
DoShaderNew ==
    \E ty \in ShaderType, source \in Sources :
      \E d \in SourceOutcomes(source) :
        /\ next <= MaxHandles
        /\ LET r == ShaderNew(G, ty, source, d)
           IN /\ Commit(r.g)
              /\ shaders' = IF r.res.tag = "Ok" THEN shaders \cup {r.res.id} ELSE shaders
              /\ programs' = programs
              /\ last' = Last("Shader::new", 0, ty, source, <<>>, <<>>, <<d>>, r.res)

\* drop(s)
DoShaderDrop ==
    \E s \in shaders :
        /\ Commit(ShaderDrop(G, s))
        /\ shaders' = shaders \ {s}
        /\ programs' = programs
        /\ last' = Last("Shader::drop", s, "", <<>>, <<>>, <<>>, <<>>, Res("", "None", 0, <<>>))

\* let p = Program::link(&[s1, ..])
DoProgramLink ==
    \E n \in 0..MaxReq :
      \E d \in LinkOutcomes(n) :
        /\ next <= MaxHandles
        /\ \E shs \in Slices(n) :
            LET r == ProgramLink(G, shs, d)
            IN /\ Commit(r.g)
               /\ programs' = IF r.res.tag = "Ok" THEN programs \cup {r.res.id} ELSE programs
               /\ shaders' = shaders
               /\ last' = Last("Program::link", 0, "", <<>>, shs, <<>>, <<d>>, r.res)

\* p.activate()
DoActivate ==
    \E p \in programs :
        /\ Commit(ProgramActivate(G, p))
        /\ UNCHANGED <<shaders, programs>>
        /\ last' = Last("Program::activate", p, "", <<>>, <<>>, <<>>, <<>>, Res("", "None", 0, <<>>))

\* p.deactivate()
DoDeactivate ==
    \E p \in programs :
        /\ Commit(ProgramDeactivate(G, p))
        /\ UNCHANGED <<shaders, programs>>
        /\ last' = Last("Program::deactivate", p, "", <<>>, <<>>, <<>>, <<>>, Res("", "None", 0, <<>>))

\* drop(p)
DoProgramDrop ==
    \E p \in programs :
        /\ Commit(ProgramDrop(G, p))
        /\ programs' = programs \ {p}
        /\ shaders' = shaders
        /\ last' = Last("Program::drop", p, "", <<>>, <<>>, <<>>, <<>>, Res("", "None", 0, <<>>))

\* let p = SourceCompiler::compile(&[(ty, source), ..])
DoCompile ==
    \E n \in 0..MaxReq :
        /\ next + n <= MaxHandles
        /\ \E req \in [1..n -> [ty : ReqTypes, source : ReqSources]] :
            \E ds \in RequestOutcomes(req) :
                LET r == SourceCompilerCompile(G, req, SubSeq(ds, 1, n), ds[n + 1])
                IN /\ Commit(r.g)
                   /\ programs' = IF r.res.tag = "Ok" THEN programs \cup {r.res.id} ELSE programs
                   /\ shaders' = shaders
                   /\ last' = Last("SourceCompiler::compile", 0, "", <<>>, <<>>, req, ds, r.res)

Next ==
    \/ DoShaderNew
    \/ DoShaderDrop
    \/ DoProgramLink
    \/ DoActivate
    \/ DoDeactivate
    \/ DoProgramDrop
    \/ DoCompile

Spec == Init /\ [][Next]_vars

\* ------------------------------------------------------ GlError, as a system
\* The error codes tried: the codes up to Margin, and those from Margin
\* below the first known error code to Margin above the last.
ErrorCodes ==
    (NO_ERROR..Margin)
    \cup ((INVALID_ENUM - Margin)..(INVALID_FRAMEBUFFER_OPERATION + Margin))

InitErr ==
    /\ objs = [h \in Handles |-> FreeObj]
    /\ active = 0
    /\ next = 1
    /\ calls = <<>>
    /\ shaders = {}
    /\ programs = {}
    /\ last = Last("init", 0, "", <<>>, <<>>, <<>>, <<>>, Res("", "None", 0, <<>>))
    /\ error_code \in ErrorCodes
    /\ gl_error = NotChecked
    /\ NoExample

\* GlError::from_error_code(error_code)
DoFromErrorCode ==
    /\ gl_error = NotChecked
    /\ gl_error' = from_error_code(error_code)
    /\ UNCHANGED <<drvVars, apiVars, rawVars, error_code>>

\* GlError::check(): the driver hands out whatever error code it holds.
DoCheck ==
    /\ gl_error # NotChecked
    /\ \E c \in ErrorCodes :
          /\ error_code' = c
          /\ gl_error' = from_error_code(c)
    /\ UNCHANGED <<drvVars, apiVars, rawVars>>

NextErr == DoFromErrorCode \/ DoCheck

SpecErr == InitErr /\ [][NextErr]_vars

\* ------------------------------------------------------ raw-GL examples, as a system
Examples == {"02_hello_triangle", "04_shader_uniforms"}

Events == {"Closed", "Resized", "Focused"}

\* What one poll_events() can hand over.
Batches == UNION {[1..n -> Events] : n \in 0..MaxBatch}

\* The driver state main() goes on from: calls keeps the whole run.
GRaw == [objs |-> objs, active |-> active, next |-> next, calls |-> calls]

\* main() moves to pc p on the driver state g.
RawStep(g, p) ==
    /\ objs' = g.objs
    /\ active' = g.active
    /\ next' = g.next
    /\ calls' = g.calls
    /\ pc' = p
    /\ UNCHANGED <<apiVars, errVars, example>>

InitRaw ==
    /\ objs = [h \in Handles |-> FreeObj]
    /\ active = 0
    /\ next = 1
    /\ calls = <<>>
    /\ shaders = {}
    /\ programs = {}
    /\ last = Last("init", 0, "", <<>>, <<>>, <<>>, <<>>, Res("", "None", 0, <<>>))
    /\ error_code = NO_ERROR
    /\ gl_error = NotChecked
    /\ example \in Examples
    /\ pc = "compile_vertex"
    /\ locals = [vertex_shader |-> 0, fragment_shader |-> 0, program |-> 0]
    /\ event = "none"
    /\ frames = 0

\* let vertex_shader = compile_shader(VERTEX_SHADER_SRC, gl::VERTEX_SHADER).unwrap();
RawCompileVertex ==
    /\ pc = "compile_vertex"
    /\ \E d \in DriverOutcomes :
          LET r == compile_shader(GRaw, VERTEX_SHADER, d)
          IN /\ RawStep(r.g, IF r.res.tag = "Ok" THEN "compile_fragment" ELSE "panicked")
             /\ locals' = [locals EXCEPT !.vertex_shader = r.res.id]
    /\ UNCHANGED <<event, frames>>

\* let fragment_shader = compile_shader(FRAGMENT_SHADER_SRC, gl::FRAGMENT_SHADER).unwrap();
RawCompileFragment ==
    /\ pc = "compile_fragment"
    /\ \E d \in DriverOutcomes :
          LET r == compile_shader(GRaw, FRAGMENT_SHADER, d)
          IN /\ RawStep(r.g, IF r.res.tag = "Ok" THEN "link" ELSE "panicked")
             /\ locals' = [locals EXCEPT !.fragment_shader = r.res.id]
    /\ UNCHANGED <<event, frames>>

\* let program = link_program(vertex_shader, fragment_shader).unwrap();
RawLink ==
    /\ pc = "link"
    /\ \E d \in LinkOutcomes(2) :
          LET r == link_program(GRaw, locals.vertex_shader, locals.fragment_shader, d)
          IN /\ RawStep(r.g, IF r.res.tag = "Ok" THEN "cleanup_vertex" ELSE "panicked")
             /\ locals' = [locals EXCEPT !.program = r.res.id]
    /\ UNCHANGED <<event, frames>>

\* cleanup_shader(vertex_shader, program);
RawCleanupVertex ==
    /\ pc = "cleanup_vertex"
    /\ RawStep(cleanup_shader(GRaw, locals.vertex_shader, locals.program), "cleanup_fragment")
    /\ UNCHANGED <<locals, event, frames>>

\* cleanup_shader(fragment_shader, program);
RawCleanupFragment ==
    /\ pc = "cleanup_fragment"
    /\ RawStep(cleanup_shader(GRaw, locals.fragment_shader, locals.program), "setup")
    /\ UNCHANGED <<locals, event, frames>>

\* The vertex data set-up; 02_hello_triangle ends it with
\* gl::UseProgram(program), 04_shader_uniforms binds no program here.
RawSetup ==
    /\ pc = "setup"
    /\ IF example = "02_hello_triangle"
       THEN RawStep(GlUseProgram(GRaw, locals.program), "wait")
       ELSE RawStep(GRaw, "poll")
    /\ UNCHANGED <<locals, event, frames>>

\* 02_hello_triangle: for event in window.wait_events()
RawWaitEvent ==
    /\ pc = "wait"
    /\ \E e \in Events :
          /\ frames < MaxFrames \/ e = "Closed"
          /\ event' = e
    /\ RawStep(GRaw, "draw")
    /\ UNCHANGED <<locals, frames>>

\* 04_shader_uniforms: for event in window.poll_events() { if let
\* Event::Closed = event { break 'gameloop; } }
RawPollEvents ==
    /\ pc = "poll"
    /\ \E batch \in Batches :
          /\ frames < MaxFrames \/ "Closed" \in Range(batch)
          /\ event' = IF "Closed" \in Range(batch) THEN "Closed"
                      ELSE IF batch = <<>> THEN event ELSE batch[Len(batch)]
          /\ RawStep(GRaw, IF "Closed" \in Range(batch) THEN "delete" ELSE "draw")
    /\ UNCHANGED <<locals, frames>>

\* The drawing of one frame: 04_shader_uniforms binds the program first.
RawDraw ==
    /\ pc = "draw"
    /\ RawStep(GlDrawArrays(IF example = "04_shader_uniforms"
                            THEN GlUseProgram(GRaw, locals.program) ELSE GRaw),
               "swap")
    /\ frames' = frames + 1
    /\ UNCHANGED <<locals, event>>

\* window.swap_buffers().unwrap(), then 02_hello_triangle's
\* if let Event::Closed = event { break; }
RawSwapBuffers ==
    /\ pc = "swap"
    /\ \E swapped \in BOOLEAN :
          RawStep(GRaw, IF ~swapped THEN "panicked"
                        ELSE IF example = "04_shader_uniforms" THEN "poll"
                        ELSE IF event = "Closed" THEN "delete" ELSE "wait")
    /\ UNCHANGED <<locals, event, frames>>

\* After the loop: gl::DeleteProgram(program);
RawDeleteProgram ==
    /\ pc = "delete"
    /\ RawStep(GlDeleteProgram(GRaw, locals.program), "done")
    /\ UNCHANGED <<locals, event, frames>>

NextRaw ==
    \/ RawCompileVertex
    \/ RawCompileFragment
    \/ RawLink
    \/ RawCleanupVertex
    \/ RawCleanupFragment
    \/ RawSetup
    \/ RawWaitEvent
    \/ RawPollEvents
    \/ RawDraw
    \/ RawSwapBuffers
    \/ RawDeleteProgram

\* main() runs on its own thread and every call it makes returns.
SpecRaw == InitRaw /\ [][NextRaw]_vars /\ WF_vars(NextRaw)

\* ================================================================
\* Properties
\* ================================================================
HasNul(source) == \E i \in 1..Len(source) : source[i] = 0

\* Positions of the calls of GL function f in the last API call.
CallsOf(f) == {i \in 1..Len(calls) : calls[i].f = f}

\* The name the driver hands out to the k-th create of the last API call.
NewName(k) == last.pre.next + k - 1

\* ---------------------------------------------------------------- C1
\* C1: Shader::new on a source with an embedded NUL, for every stage kind,
\* returns InvalidSource and issues no GL call: the driver state (object
\* table, next name, current program) is what it was before the call.
C1_NulSourceNoGpuCall ==
    [][(last'.op = "Shader::new" /\ HasNul(last'.source))
        => (/\ last'.res = Err("InvalidSource", <<>>)
            /\ calls' = <<>>
            /\ objs' = objs /\ next' = next /\ active' = active
            /\ shaders' = shaders)]_vars

C1_Witness ==
    /\ last.op = "Shader::new"
    /\ HasNul(last.source)
    /\ last.ty = "Compute"
    /\ last.res.tag = "InvalidSource"
    /\ shaders # {}

\* ---------------------------------------------------------------- C2
\* First entry of the request the driver does not accept (0 if none).
FirstFailing(req, ds) ==
    IF \A i \in 1..Len(req) : Accepts(req[i], ds[i]) THEN 0
    ELSE CHOOSE i \in 1..Len(req) :
            /\ ~Accepts(req[i], ds[i])
            /\ \A j \in 1..(i - 1) : Accepts(req[j], ds[j])

\* The sources of the entries 1..i that reach the driver, in order.
RECURSIVE SourcesSent(_, _)
SourcesSent(req, i) ==
    IF i = 0 THEN <<>>
    ELSE IF HasNul(req[i].source) THEN SourcesSent(req, i - 1)
         ELSE Append(SourcesSent(req, i - 1), req[i].source)

\* The s fields of the calls of f, in call order.
RECURSIVE ArgsOf(_, _)
ArgsOf(f, i) ==
    IF i = 0 THEN <<>>
    ELSE IF calls[i].f = f THEN Append(ArgsOf(f, i - 1), calls[i].s)
         ELSE ArgsOf(f, i - 1)

\* The error Shader::new gives for entry e under driver outcome d, alone on
\* a fresh driver.
OwnError(e, d) ==
    ShaderNew([objs |-> [h \in Handles |-> FreeObj], active |-> 0, next |-> 1, calls |-> <<>>],
              e.ty, e.source, d).res

\* C2: SourceCompiler::compile is fail-fast: when entry i is the first whose
\* Shader creation fails, the result is that entry's error wrapped as
\* ShaderCreationError, the only sources created, uploaded and compiled are
\* those of entries 1..i, and no program object is created or linked.
C2_FailFast ==
    (last.op = "SourceCompiler::compile" /\ FirstFailing(last.req, last.ds) # 0)
    => LET i == FirstFailing(last.req, last.ds)
           sent == SourcesSent(last.req, i)
       IN /\ last.res = [OwnError(last.req[i], last.ds[i]) EXCEPT !.wrap = "ShaderCreationError"]
          /\ last.res.tag \in {"InvalidSource", "CompileError", "InvalidInfoLog"}
          /\ Cardinality(CallsOf("CreateShader")) = Len(sent)
          /\ ArgsOf("ShaderSource", Len(calls)) = sent
          /\ Cardinality(CallsOf("CompileShader")) = Len(sent)
          /\ CallsOf("CreateProgram") = {}
          /\ CallsOf("AttachShader") = {}
          /\ CallsOf("LinkProgram") = {}

C2_Witness ==
    /\ last.op = "SourceCompiler::compile"
    /\ Len(last.req) = 2
    /\ FirstFailing(last.req, last.ds) = 1
    /\ last.res.wrap = "ShaderCreationError"
    /\ last.res.tag = "CompileError"
    /\ HasNul(last.req[2].source)

\* ---------------------------------------------------------------- C3
\* C3: every shader object the driver allocated has received at most one
\* delete request: none while a live Shader value owns it, exactly one once
\* that value is gone (dropped by the caller, or inside Shader::new or
\* SourceCompiler::compile).
C3_ShaderDeletedOnce ==
    \A h \in Handles :
        objs[h].kind = "shader"
        => /\ objs[h].delReq <= 1
           /\ h \in shaders => (objs[h].delReq = 0 /\ ~objs[h].gone)
           /\ h \notin shaders => objs[h].delReq = 1

C3_Witness ==
    /\ last.op = "Shader::drop"
    /\ objs[last.self].kind = "shader"
    /\ objs[last.self].delReq = 1
    /\ \E h \in shaders : objs[h].delReq = 0
    /\ \E h \in Handles \ shaders :
        h # last.self /\ objs[h].kind = "shader" /\ objs[h].delReq = 1

\* ---------------------------------------------------------------- C4
\* The last call was a Shader::new that failed after the driver allocated
\* the shader object.
FailedAfterAlloc ==
    /\ last.op = "Shader::new"
    /\ last.res.tag \in {"CompileError", "InvalidInfoLog"}
    /\ last.ds[1].alloc

\* C4 as claimed: after such a failure the shader object has received no
\* delete request and is still allocated.
C4_AsClaimed_LeakedOnFailure ==
    FailedAfterAlloc
    => (objs[NewName(1)].delReq = 0 /\ IsShader(objs, NewName(1)))

\* C4, amended: after such a failure the shader object has received exactly
\* one delete request, issued as the last GL call of Shader::new (the local
\* owning Shader value is dropped on the error return), and no Shader value
\* owns it.
C4_DeletedOnFailure ==
    FailedAfterAlloc
    => /\ objs[NewName(1)].kind = "shader"
       /\ objs[NewName(1)].delReq = 1
       /\ ~IsShader(objs, NewName(1))
       /\ NewName(1) \notin shaders
       /\ CallsOf("DeleteShader") = {Len(calls)}
       /\ calls[Len(calls)] = Call("DeleteShader", NewName(1), 0, <<>>)

C4_Witness ==
    /\ FailedAfterAlloc
    /\ last.res.tag = "CompileError"
    /\ last.res.log # <<>>
    /\ objs[NewName(1)].delReq = 1

\* ---------------------------------------------------------------- C5
\* C5: after a Program is destroyed the current-program slot is 0, whatever
\* it held before, also when it held another Program that is still alive.
C5_DropClearsSlot == last.op = "Program::drop" => active = 0

C5_Witness ==
    /\ last.op = "Program::drop"
    /\ last.pre.active # last.self
    /\ last.pre.active \in programs
    /\ active = 0

\* ---------------------------------------------------------------- C6
\* C6: destroying a Program issues UseProgram(0) and then DeleteProgram of
\* its object, nothing else; no DeleteProgram is ever issued without the
\* UseProgram(0) right before it; a program object has no delete request
\* while a live Program owns it and exactly one once that value is gone.
C6_DeactivateThenDeleteOnce ==
    /\ last.op = "Program::drop"
       => calls = <<Call("UseProgram", 0, 0, <<>>), Call("DeleteProgram", last.self, 0, <<>>)>>
    /\ \A i \in CallsOf("DeleteProgram") :
        i > 1 /\ calls[i - 1] = Call("UseProgram", 0, 0, <<>>)
    /\ \A h \in Handles :
        objs[h].kind = "program"
        => /\ objs[h].delReq <= 1
           /\ h \in programs => (objs[h].delReq = 0 /\ ~objs[h].gone)
           /\ h \notin programs => objs[h].delReq = 1

C6_Witness ==
    /\ last.op = "Program::drop"
    /\ last.pre.active = last.self
    /\ objs[last.self].delReq = 1
    /\ \E h \in programs : objs[h].delReq = 0

\* ---------------------------------------------------------------- C7
\* The driver state after the last call, as the start of another call.
GNow == [objs |-> objs, active |-> active, next |-> next, calls |-> <<>>]

SameDriverState(g) == g.objs = objs /\ g.active = active /\ g.next = next

\* C7: deactivate leaves the slot at 0 from every prior slot value and
\* changes nothing else (object table, next name, live values); a second
\* deactivate right after it leaves the driver state as the first did.
C7_DeactivateClearsOnly ==
    [][last'.op = "Program::deactivate"
        => (/\ active' = 0
            /\ objs' = objs /\ next' = next
            /\ shaders' = shaders /\ programs' = programs
            /\ calls' = <<Call("UseProgram", 0, 0, <<>>)>>
            /\ SameDriverState(ProgramDeactivate(GNow, last.self))')]_vars

C7_Witness ==
    /\ last.op = "Program::deactivate"
    /\ last.pre.active \in programs \ {last.self}
    /\ active = 0

\* ---------------------------------------------------------------- C8
\* C8: activate on a live Program leaves the slot holding that Program's
\* handle whatever it held before, returns nothing, changes nothing else,
\* and a second activate right after it leaves the same driver state.
C8_ActivateBindsSelf ==
    [][last'.op = "Program::activate"
        => (/\ active' = last'.self
            /\ last'.self # 0
            /\ last'.res.tag = "None"
            /\ objs' = objs /\ next' = next
            /\ shaders' = shaders /\ programs' = programs
            /\ SameDriverState(ProgramActivate(GNow, last.self))')]_vars

C8_Witness ==
    /\ last.op = "Program::activate"
    /\ last.pre.active \in programs \ {last.self}
    /\ active = last.self

\* ---------------------------------------------------------------- C9
\* The last call ran Program::link: directly, or inside a
\* SourceCompiler::compile whose entries the driver all accepted.
RanLink ==
    \/ last.op = "Program::link"
    \/ last.op = "SourceCompiler::compile" /\ FirstFailing(last.req, last.ds) = 0

\* The handles of the shaders handed to that link, in input order.
LinkInput ==
    IF last.op = "Program::link" THEN last.shs
    ELSE [i \in 1..Len(last.req) |-> NewName(i)]

\* What the driver was set to do with that link.
LinkOutcome == last.ds[Len(last.ds)]

\* The handle CreateProgram returned to that link.
LinkedName ==
    IF ~LinkOutcome.alloc THEN 0
    ELSE IF last.op = "Program::link" THEN NewName(1) ELSE NewName(Len(last.req) + 1)

\* C9: a Program::link call issues CreateProgram exactly once, then one
\* AttachShader per input shader in input order, then LinkProgram once, then
\* the LINK_STATUS query; there is no other attach; the driver has exactly
\* one new program object (none when it fails to allocate the name), and a
\* linked program holds exactly the input shaders, in order.
C9_LinkCallOrder ==
    RanLink
    => \E c \in 1..Len(calls) :
        LET k == Len(LinkInput)
        IN /\ CallsOf("CreateProgram") = {c}
           /\ Len(calls) >= c + k + 2
           /\ \A i \in 1..k : calls[c + i] = Call("AttachShader", LinkedName, LinkInput[i], <<>>)
           /\ CallsOf("AttachShader") = (c + 1)..(c + k)
           /\ calls[c + k + 1] = Call("LinkProgram", LinkedName, 0, <<>>)
           /\ CallsOf("LinkProgram") = {c + k + 1}
           /\ calls[c + k + 2] = Call("GetProgramiv", LinkedName, LINK_STATUS, <<>>)
           /\ {h \in Handles : h >= last.pre.next /\ objs[h].kind = "program"}
                = (IF LinkOutcome.alloc THEN {LinkedName} ELSE {})
           /\ last.res.tag = "Ok" => objs[LinkedName].attached = LinkInput

C9_Witness ==
    /\ last.op = "Program::link"
    /\ Len(last.shs) = 2
    /\ last.shs[1] > last.shs[2]
    /\ last.res.tag = "Ok"
    /\ objs[last.res.id].attached = last.shs

\* ---------------------------------------------------------------- C10
\* C10: Program::link, whatever its result, issues no DetachShader and no
\* DeleteShader, and leaves the set of live Shader values and every shader
\* object as they were (its kind, compile status, delete requests and
\* liveness; the info log is the driver's to rewrite while it links).
C10_LinkLeavesShaders ==
    [][last'.op = "Program::link"
        => (/\ (CallsOf("DeleteShader") = {})'
            /\ (CallsOf("DetachShader") = {})'
            /\ shaders' = shaders
            /\ \A h \in Handles :
                 objs[h].kind = "shader"
                 => [objs'[h] EXCEPT !.hasLog = objs[h].hasLog, !.log = objs[h].log] = objs[h]
            /\ \A i \in 1..Len(last'.shs) : IsShader(objs', last'.shs[i]))]_vars

C10_Witness ==
    /\ last.op = "Program::link"
    /\ Len(last.shs) = 2
    /\ last.res.tag = "LinkError"
    /\ last.ds[1].late = {1}
    /\ objs[last.shs[1]].log = LateLog /\ ~objs[last.shs[2]].hasLog
    /\ \A i \in 1..2 : last.shs[i] \in shaders /\ objs[last.shs[i]].delReq = 0

\* ---------------------------------------------------------------- C11
\* The bytes the driver delivers when asked for the info log it holds
\* under outcome d: the log and its terminating NUL, nothing without a log.
Delivered(d) == IF d.hasLog THEN Append(d.log, 0) ELSE <<>>

\* The bytes are a NUL-terminated string: one NUL, in last position.
NulTerminated(b) ==
    /\ b # <<>>
    /\ b[Len(b)] = 0
    /\ \A i \in 1..(Len(b) - 1) : b[i] # 0

\* The UTF-8 encoding of one character, and of a text.
Utf8Encode(c) ==
    IF c < 128 THEN <<c>>
    ELSE IF c < 2048 THEN <<192 + (c \div 64), 128 + (c % 64)>>
    ELSE IF c < 65536
    THEN <<224 + (c \div 4096), 128 + ((c \div 64) % 64), 128 + (c % 64)>>
    ELSE <<240 + (c \div 262144), 128 + ((c \div 4096) % 64),
           128 + ((c \div 64) % 64), 128 + (c % 64)>>

RECURSIVE Utf8EncodeAll(_)
Utf8EncodeAll(text) ==
    IF text = <<>> THEN <<>> ELSE Utf8Encode(Head(text)) \o Utf8EncodeAll(Tail(text))

\* The ASCII part of a sequence of bytes or of characters, in order.
AsciiOf(q) == SelectSeq(q, LAMBDA x : x < 128)

\* The log cannot be decoded as text: its bytes are not valid UTF-8.
Undecodable(log) == ~Utf8Valid(log)

\* text is the log as a string: its characters encode to the log's bytes.
Verbatim(text, log) == Utf8EncodeAll(text) = log

\* text is the log with its undecodable parts replaced: it holds U+FFFD,
\* has at most one character per byte, and keeps the ASCII bytes in order.
Replaced(text, log) ==
    /\ \E i \in 1..Len(text) : text[i] = REPLACEMENT_CHARACTER
    /\ Len(text) <= Len(log)
    /\ AsciiOf(text) = AsciiOf(log)
    /\ ~Verbatim(text, log)

\* text carries the log: the log itself when it is valid UTF-8, the log
\* with its undecodable parts replaced by U+FFFD when it is not.
Carries(text, log) ==
    IF Undecodable(log) THEN Replaced(text, log) ELSE Verbatim(text, log)

\* The log bytes are malformed: the driver delivers no NUL-terminated
\* string, or the log it holds is not valid UTF-8.
Malformed(d) == ~NulTerminated(Delivered(d)) \/ Undecodable(d.log)

\* C11 as claimed: Program::link returns Ok exactly when the driver reports
\* link success; on failure it returns InvalidInfoLog when the log bytes are
\* malformed and LinkError carrying exactly the driver's log otherwise, and
\* no Program value exists.
C11_AsClaimed_MalformedIsInvalid ==
    RanLink
    => /\ (last.res.tag = "Ok") <=> LinkOutcome.status
       /\ ~LinkOutcome.status
          => (/\ IF Malformed(LinkOutcome)
                 THEN last.res.tag = "InvalidInfoLog"
                 ELSE last.res.tag = "LinkError" /\ Verbatim(last.res.log, LinkOutcome.log)
              /\ last.res.id = 0
              /\ LinkedName \notin programs)

\* C11, amended: Program::link returns Ok exactly when the driver reports
\* link success, and then the Program wraps the new object; on failure the
\* result is InvalidInfoLog exactly when the bytes delivered are not a
\* NUL-terminated string (no log is held), and LinkError otherwise: with
\* exactly the text of the log when it is valid UTF-8, with the log altered
\* (each undecodable part replaced by U+FFFD) when it is not; no Program
\* value exists for the object, which has received its delete request.
C11_LinkResult ==
    RanLink
    => /\ (last.res.tag = "Ok") <=> LinkOutcome.status
       /\ LinkOutcome.status
          => (/\ last.res.id = LinkedName
              /\ LinkedName \in programs
              /\ IsProgram(objs, LinkedName) /\ objs[LinkedName].linked)
       /\ ~LinkOutcome.status
          => (/\ (last.res.tag = "InvalidInfoLog")
                    <=> ~NulTerminated(Delivered(LinkOutcome))
              /\ last.res.tag \in {"InvalidInfoLog", "LinkError"}
              /\ last.res.tag = "InvalidInfoLog" => last.res.log = <<>>
              /\ last.res.tag = "LinkError"
                 => (/\ IF Undecodable(LinkOutcome.log)
                        THEN Replaced(last.res.log, LinkOutcome.log)
                        ELSE Verbatim(last.res.log, LinkOutcome.log)
                     /\ LinkOutcome.log = <<69, 195, 169>> => last.res.log = <<69, 233>>
                     /\ LinkOutcome.log = <<69, 255>>
                        => last.res.log = <<69, REPLACEMENT_CHARACTER>>)
              /\ last.res.id = 0
              /\ LinkedName \notin programs
              /\ LinkOutcome.alloc => objs[LinkedName].delReq = 1)

C11_Witness ==
    /\ last.op = "Program::link"
    /\ ~LinkOutcome.status
    /\ LinkOutcome.log = <<69, 255>>
    /\ Malformed(LinkOutcome)
    /\ last.res.tag = "LinkError"
    /\ last.res.log = <<69, REPLACEMENT_CHARACTER>>
    /\ Len(last.shs) = 1

\* ---------------------------------------------------------------- C12
\* The last call was a Shader::new on a source that reached the driver,
\* which allocated the object and reported compile failure.
CompileRejected ==
    /\ last.op = "Shader::new"
    /\ ~HasNul(last.source)
    /\ last.ds[1].alloc
    /\ ~last.ds[1].status

\* C12 as claimed: on compile failure the result is CompileError whose
\* payload is exactly the log the driver holds.
C12_AsClaimed_VerbatimLog ==
    CompileRejected
    => (last.res.tag = "CompileError" /\ Verbatim(last.res.log, last.ds[1].log))

\* C12, amended: on compile failure with a log held by the driver the
\* result is CompileError whose payload is the log decoded as UTF-8: the
\* text the log encodes when it is valid UTF-8 (a character of several
\* bytes is one character), and the log with each undecodable part
\* replaced by U+FFFD when it is not.  Without a log the result is
\* InvalidInfoLog.
C12_LossyLog ==
    CompileRejected
    => IF last.ds[1].hasLog
       THEN /\ last.res.tag = "CompileError"
            /\ Carries(last.res.log, last.ds[1].log)
            /\ last.ds[1].log = <<69, 195, 169>> => last.res.log = <<69, 233>>
            /\ last.ds[1].log = <<69, 255>> => last.res.log = <<69, REPLACEMENT_CHARACTER>>
       ELSE last.res.tag = "InvalidInfoLog"

C12_Witness ==
    /\ CompileRejected
    /\ last.ds[1].log = <<69, 255>>
    /\ last.res.tag = "CompileError"
    /\ last.res.log = <<69, REPLACEMENT_CHARACTER>>

\* ---------------------------------------------------------------- C13
\* C13 as claimed: on compile failure with a log that cannot be decoded as
\* valid text the result is InvalidInfoLog.
C13_AsClaimed_UndecodableIsInvalid ==
    (CompileRejected /\ last.ds[1].hasLog /\ Undecodable(last.ds[1].log))
    => last.res.tag = "InvalidInfoLog"

\* C13, amended: Shader::new returns InvalidInfoLog exactly when the driver
\* reports compile failure (or allocates nothing) and the bytes it delivers
\* are not a NUL-terminated string (here: it reports log length 0); a
\* NUL-terminated log that is not valid UTF-8 gives CompileError with the
\* invalid bytes replaced, never InvalidInfoLog; the call always returns.
C13_InvalidOnlyWithoutNul ==
    (last.op = "Shader::new" /\ ~HasNul(last.source))
    => /\ (last.res.tag = "InvalidInfoLog")
          <=> (~last.ds[1].status /\ ~NulTerminated(Delivered(last.ds[1])))
       /\ (~last.ds[1].status /\ last.ds[1].hasLog /\ Undecodable(last.ds[1].log))
          => (/\ last.res.tag = "CompileError"
              /\ Replaced(last.res.log, last.ds[1].log))
       /\ last.res.tag \in {"Ok", "CompileError", "InvalidInfoLog"}

C13_Witness ==
    /\ CompileRejected
    /\ last.ds[1].hasLog
    /\ Undecodable(last.ds[1].log)
    /\ last.res.tag = "CompileError"
    /\ ~Verbatim(last.res.log, last.ds[1].log)
    /\ last.ty = "Fragment"

\* ---------------------------------------------------------------- C14
\* C14 as claimed: for every null-free source the driver rejects, whatever
\* log length it reports, the result is CompileError with a non-empty log.
C14_AsClaimed_NonEmptyLog ==
    CompileRejected => (last.res.tag = "CompileError" /\ last.res.log # <<>>)

\* C14, amended: for every null-free source the driver rejects the call
\* fails, and the variant follows the log length the driver reports:
\* InvalidInfoLog for length 0, CompileError with an empty log for length 1,
\* CompileError with a non-empty log, of at most length - 1 characters, for
\* a greater length.
C14_FailureByLogLength ==
    CompileRejected
    => LET n == Len(Delivered(last.ds[1]))
       IN /\ last.res.tag # "Ok"
          /\ NewName(1) \notin shaders
          /\ n = 0 => last.res.tag = "InvalidInfoLog"
          /\ n = 1 => (last.res.tag = "CompileError" /\ last.res.log = <<>>)
          /\ n >= 2 => (last.res.tag = "CompileError" /\ Len(last.res.log) \in 1..(n - 1))

C14_Witness ==
    /\ CompileRejected
    /\ Len(Delivered(last.ds[1])) = 1
    /\ last.res.tag = "CompileError"
    /\ last.res.log = <<>>

\* ---------------------------------------------------------------- C15
\* C15: Shader::new returns Ok exactly when the source has no embedded NUL
\* and the driver reports compile success; the Shader returned wraps the
\* name the driver allocated for this call, which is not 0 and denotes a
\* compiled shader object owned by the new live value.
C15_OkIffCompiled ==
    last.op = "Shader::new"
    => /\ (last.res.tag = "Ok") <=> (~HasNul(last.source) /\ last.ds[1].status)
       /\ last.res.tag = "Ok"
          => (/\ last.res.id = NewName(1)
              /\ last.res.id # 0
              /\ next = last.pre.next + 1
              /\ calls[1] = Call("CreateShader", GLenumFrom(last.ty), 0, <<>>)
              /\ last.res.id \in shaders
              /\ IsShader(objs, last.res.id)
              /\ objs[last.res.id].compiled)
       /\ last.res.tag # "Ok" => last.res.id = 0

C15_Witness ==
    /\ last.op = "Shader::new"
    /\ last.res.tag = "Ok"
    /\ last.ty = "Geometry"
    /\ last.res.id = 2
    /\ 1 \in shaders

\* ---------------------------------------------------------------- C16
\* A driver on which nothing has been created.
FreshG == [objs |-> [h \in Handles |-> FreeObj], active |-> 0, next |-> 1, calls |-> <<>>]

\* The error Program::link gives under driver outcome d, alone.
OwnLinkError(shs, d) == ProgramLink(FreshG, shs, d).res

\* C16: the error of SourceCompiler::compile is the underlying error with
\* the tag of the phase that failed: ShaderCreationError around the error of
\* the first failing entry's Shader::new, ProgramCreationError around the
\* error of Program::link, the latter only when every entry compiled; a
\* success carries no tag.
C16_ErrorTaggedByPhase ==
    last.op = "SourceCompiler::compile"
    => LET i == FirstFailing(last.req, last.ds)
       IN /\ i # 0
             => last.res = [OwnError(last.req[i], last.ds[i])
                                EXCEPT !.wrap = "ShaderCreationError"]
          /\ (i = 0 /\ ~LinkOutcome.status)
             => (/\ last.res = [OwnLinkError(<<>>, LinkOutcome)
                                    EXCEPT !.wrap = "ProgramCreationError"]
                 /\ last.res.tag \in {"LinkError", "InvalidInfoLog"})
          /\ last.res.wrap = "ProgramCreationError" => i = 0
          /\ last.res.wrap = "ShaderCreationError" => i # 0
          /\ (last.res.wrap = "") <=> (last.res.tag = "Ok")

C16_Witness ==
    /\ last.op = "SourceCompiler::compile"
    /\ Len(last.req) = 2
    /\ last.res.wrap = "ProgramCreationError"
    /\ last.res.tag = "LinkError"
    /\ last.res.log = <<69, REPLACEMENT_CHARACTER>>

\* ---------------------------------------------------------------- C17
\* C17: in every reachable state the current-program slot is 0 or names a
\* program object that exists and has received no delete request.
C17_ActiveNotDeleted ==
    \/ active = 0
    \/ /\ IsProgram(objs, active)
       /\ objs[active].delReq = 0
       /\ active \in programs

C17_Witness ==
    /\ last.op = "Program::activate"
    /\ active = last.self
    /\ active \in programs
    /\ \E h \in Handles : objs[h].kind = "program" /\ objs[h].gone

\* ---------------------------------------------------------------- C18
\* What every live Shader and Program value denotes.
LiveValuesValid ==
    /\ \A h \in shaders :
          /\ IsShader(objs, h)
          /\ h < next
          /\ objs[h].compiled
          /\ objs[h].delReq = 0
    /\ \A p \in programs :
          /\ IsProgram(objs, p)
          /\ p < next
          /\ objs[p].linked
          /\ objs[p].delReq = 0
          /\ \A i \in 1..Len(objs[p].attached) :
                /\ objs[p].attached[i] \in Handles
                /\ objs[objs[p].attached[i]].kind = "shader"
                /\ ~objs[objs[p].attached[i]].gone
                /\ objs[objs[p].attached[i]].compiled
    /\ (RanLink /\ last.res.tag = "Ok")
       => (/\ last.res.id \in programs
           /\ objs[last.res.id].attached = LinkInput)

\* C18: every live Shader handle denotes an allocated, successfully
\* compiled shader object with no delete request; every live Program
\* handle denotes a successfully linked program object with no delete
\* request, whose attachments are the shaders passed at link time, in
\* order, and stay so for as long as the Program lives.
C18_LiveHandlesValid ==
    /\ []LiveValuesValid
    /\ [][\A p \in programs \cap programs' :
             objs'[p].attached = objs[p].attached]_vars

C18_Witness ==
    /\ last.op = "Shader::drop"
    /\ \E p \in programs :
          /\ Len(objs[p].attached) = 2
          /\ last.self = objs[p].attached[1]
          /\ objs[last.self].delReq = 1
          /\ objs[p].attached[2] \in shaders

\* ---------------------------------------------------------------- C19
\* The native constant of each stage kind.
StageTable ==
    {<<"Vertex", VERTEX_SHADER>>, <<"Fragment", FRAGMENT_SHADER>>,
     <<"Geometry", GEOMETRY_SHADER>>, <<"TessControl", TESS_CONTROL_SHADER>>,
     <<"TessEvaluation", TESS_EVALUATION_SHADER>>, <<"Compute", COMPUTE_SHADER>>}

\* The constant the table gives for a kind.
StageConstant(ty) == (CHOOSE p \in StageTable : p[1] = ty)[2]

\* The stage arguments of the CreateShader calls, in call order.
RECURSIVE StagesAsked(_)
StagesAsked(i) ==
    IF i = 0 THEN <<>>
    ELSE IF calls[i].f = "CreateShader" THEN Append(StagesAsked(i - 1), calls[i].a)
         ELSE StagesAsked(i - 1)

\* The table constants of the entries 1..i that reach the driver, in order.
RECURSIVE StagesSent(_, _)
StagesSent(req, i) ==
    IF i = 0 THEN <<>>
    ELSE IF HasNul(req[i].source) THEN StagesSent(req, i - 1)
         ELSE Append(StagesSent(req, i - 1), StageConstant(req[i].ty))

\* C19: the conversion maps the six kinds to their six native constants,
\* no two kinds to the same constant, and every CreateShader call of
\* Shader::new carries the constant of the kind requested.
C19_StageConstantOneToOne ==
    /\ {p[1] : p \in StageTable} = ShaderType
    /\ \A p \in StageTable : GLenumFrom(p[1]) = p[2]
    /\ \A a, b \in ShaderType : GLenumFrom(a) = GLenumFrom(b) => a = b
    /\ Cardinality({GLenumFrom(a) : a \in ShaderType}) = 6
    /\ (last.op = "Shader::new" /\ ~HasNul(last.source))
       => (/\ StagesAsked(Len(calls)) = <<StageConstant(last.ty)>>
           /\ calls[1] = Call("CreateShader", StageConstant(last.ty), 0, <<>>))
    /\ last.op = "SourceCompiler::compile"
       => LET i == FirstFailing(last.req, last.ds)
          IN StagesAsked(Len(calls))
                = StagesSent(last.req, IF i = 0 THEN Len(last.req) ELSE i)

C19_Witness ==
    /\ last.op = "Shader::new"
    /\ last.ty = "TessEvaluation"
    /\ last.res.tag = "Ok"
    /\ calls[1].f = "CreateShader"
    /\ calls[1].a = TESS_EVALUATION_SHADER
    /\ objs[last.res.id].kind = "shader"

\* ---------------------------------------------------------------- C20
\* The a arguments of the calls of f among the first i calls, in order.
RECURSIVE NamesAsked(_, _)
NamesAsked(f, i) ==
    IF i = 0 THEN <<>>
    ELSE IF calls[i].f = f THEN Append(NamesAsked(f, i - 1), calls[i].a)
         ELSE NamesAsked(f, i - 1)

\* The b arguments of the AttachShader calls, in call order.
RECURSIVE ShadersAttached(_)
ShadersAttached(i) ==
    IF i = 0 THEN <<>>
    ELSE IF calls[i].f = "AttachShader" THEN Append(ShadersAttached(i - 1), calls[i].b)
         ELSE ShadersAttached(i - 1)

\* The terminal outcome of the last compile call.
Terminal ==
    IF last.res.tag = "Ok" /\ last.res.wrap = "" THEN {"Linked"}
    ELSE {"Failed" : x \in {w \in {last.res.wrap} : w = "ShaderCreationError"}}
         \cup {"LinkFailed" : x \in {w \in {last.res.wrap} : w = "ProgramCreationError"}}

\* Requests that start or advance a compile or a link.
PipelineRequests ==
    CallsOf("CreateShader") \cup CallsOf("ShaderSource") \cup CallsOf("CompileShader")
    \cup CallsOf("CreateProgram") \cup CallsOf("AttachShader") \cup CallsOf("LinkProgram")

\* The compile-status queries, each deciding one entry.
StatusQueries ==
    {q \in CallsOf("GetShaderiv") : calls[q].b = COMPILE_STATUS}

\* C20: a compile call compiles its entries one after the other in request
\* order and stops at the first that fails (Failed); the program object is
\* created, the shaders attached in request order and the link requested
\* only when every entry compiled, after the last compile request, and the
\* call then ends Linked or LinkFailed as the driver reports; nothing is
\* compiled, attached or linked after the step that decides the outcome.
C20_CompilePipeline ==
    last.op = "SourceCompiler::compile"
    => LET n == Len(last.req)
           i == FirstFailing(last.req, last.ds)
           reached == Len(SourcesSent(last.req, IF i = 0 THEN n ELSE i))
       IN /\ Cardinality(Terminal) = 1
          /\ "Failed" \in Terminal <=> i # 0
          /\ "Linked" \in Terminal <=> (i = 0 /\ LinkOutcome.status)
          /\ "LinkFailed" \in Terminal <=> (i = 0 /\ ~LinkOutcome.status)
          /\ Cardinality(CallsOf("CreateShader")) = reached
          /\ Cardinality(CallsOf("CompileShader")) = reached
          /\ \A k \in 1..(IF i = 0 THEN n ELSE i - 1) :
                NamesAsked("CompileShader", Len(calls))[k] = NewName(k)
          /\ (CallsOf("CreateProgram") \cup CallsOf("AttachShader")
                \cup CallsOf("LinkProgram") # {}) => i = 0
          /\ Cardinality(StatusQueries) = reached
          /\ i # 0
             => \A c \in PipelineRequests : \E q \in StatusQueries : c < q
          /\ i = 0
             => \E l \in 1..Len(calls) :
                   /\ CallsOf("LinkProgram") = {l}
                   /\ Cardinality(CallsOf("CreateProgram")) = 1
                   /\ reached = n
                   /\ \A x \in CallsOf("CompileShader") :
                         \A c \in CallsOf("CreateProgram") : x < c /\ c < l
                   /\ ShadersAttached(Len(calls)) = [k \in 1..n |-> NewName(k)]
                   /\ ShadersAttached(l) = ShadersAttached(Len(calls))
                   /\ \A c \in PipelineRequests : c <= l

C20_Witness ==
    /\ last.op = "SourceCompiler::compile"
    /\ Len(last.req) = 2
    /\ Terminal = {"Linked"}
    /\ last.res.id = NewName(3)
    /\ objs[last.res.id].attached = <<NewName(1), NewName(2)>>
    /\ Cardinality(CallsOf("CompileShader")) = 2

\* ---------------------------------------------------------------- C21
\* The number of entries of the last compile call that compiled.
CompiledCount ==
    IF FirstFailing(last.req, last.ds) = 0 THEN Len(last.req)
    ELSE FirstFailing(last.req, last.ds) - 1

\* The names handed out during the last call.
NamedInCall == {h \in Handles : last.pre.next <= h /\ h < next}

\* C21: when compile returns, on every path, each shader object that
\* compiled during the call has received exactly one delete request and no
\* Shader value owns it; after a failure every program object the call
\* created has received a delete request and is destroyed, and so is every
\* shader object of the call; after a success the returned Program's object
\* has received none and still holds the (flagged) shaders.
C21_CompileReleasesShaders ==
    last.op = "SourceCompiler::compile"
    => /\ \A k \in 1..CompiledCount :
             /\ objs[NewName(k)].kind = "shader"
             /\ objs[NewName(k)].delReq = 1
             /\ Cardinality({c \in CallsOf("DeleteShader") : calls[c].a = NewName(k)}) = 1
             /\ NewName(k) \notin shaders
       /\ \A h \in NamedInCall : objs[h].kind = "shader" => objs[h].delReq = 1
       /\ last.res.tag # "Ok"
          => \A h \in NamedInCall :
                /\ objs[h].gone
                /\ objs[h].delReq = 1
                /\ h \notin programs
       /\ last.res.tag = "Ok"
          => (/\ objs[last.res.id].delReq = 0
              /\ IsProgram(objs, last.res.id)
              /\ CallsOf("DeleteProgram") = {}
              /\ \A k \in 1..CompiledCount : IsShader(objs, NewName(k)))

C21_Witness ==
    /\ last.op = "SourceCompiler::compile"
    /\ Len(last.req) = 2
    /\ FirstFailing(last.req, last.ds) = 2
    /\ last.res.tag = "CompileError"
    /\ objs[NewName(1)].gone
    /\ objs[NewName(1)].delReq = 1
    /\ objs[NewName(2)].delReq = 1

\* ---------------------------------------------------------------- C22
\* The last call is one the claim says leaves the current program alone.
LeavesSlotAlone(l) ==
    \/ l.op \in {"Shader::new", "Shader::drop"}
    \/ l.op \in {"Program::link", "SourceCompiler::compile"} /\ l.res.tag = "Ok"

\* C22: Shader::new (any outcome), Shader::drop, a successful Program::link
\* and a successful compile leave the current-program slot as it was, and
\* issue no UseProgram; the slot changes only in a call that runs activate
\* or deactivate.
C22_SlotFrame ==
    [][/\ LeavesSlotAlone(last')
          => (active' = active /\ \A c \in 1..Len(calls') : calls'[c].f # "UseProgram")
       /\ active' # active
          => \E c \in 1..Len(calls') : calls'[c].f = "UseProgram"]_vars

C22_Witness ==
    /\ last.op = "SourceCompiler::compile"
    /\ last.res.tag = "Ok"
    /\ Len(last.req) = 1
    /\ last.pre.active # 0
    /\ active = last.pre.active
    /\ active # last.res.id

\* ---------------------------------------------------------------- C23
\* The last call ran Program::link and the driver reported link failure.
LinkFailed == RanLink /\ ~LinkOutcome.status

\* C23: a failed Program::link, alone or as the link phase of compile,
\* issues exactly one DeleteProgram, for the name CreateProgram returned,
\* and UseProgram(0) right before it; the object, if the driver created
\* one, is destroyed, no Program value owns it, and the current-program
\* slot is 0 after the call whatever it held before.
C23_FailedLinkDestroysProgram ==
    LinkFailed
    => /\ last.res.tag \in {"LinkError", "InvalidInfoLog"}
       /\ \E c \in 2..Len(calls) :
             /\ CallsOf("DeleteProgram") = {c}
             /\ calls[c] = Call("DeleteProgram", LinkedName, 0, <<>>)
             /\ calls[c - 1] = Call("UseProgram", 0, 0, <<>>)
             /\ CallsOf("UseProgram") = {c - 1}
             /\ \A l \in CallsOf("LinkProgram") : l < c - 1
       /\ active = 0
       /\ LinkedName \notin programs
       /\ LinkOutcome.alloc
          => (/\ objs[LinkedName].kind = "program"
              /\ objs[LinkedName].gone
              /\ objs[LinkedName].delReq = 1)
       /\ \A p \in programs : IsProgram(objs, p) /\ objs[p].delReq = 0

C23_Witness ==
    /\ LinkFailed
    /\ last.op = "SourceCompiler::compile"
    /\ LinkOutcome.alloc
    /\ last.pre.active # 0
    /\ last.pre.active \in programs
    /\ active = 0
    /\ objs[LinkedName].gone

\* ---------------------------------------------------------------- C24
\* The last call ran Program::link on no shader at all.
LinkedNothing == RanLink /\ LinkInput = <<>>

\* C24 as claimed: with an empty input every failure the driver reports
\* comes back as LinkError.
C24_AsClaimed_AlwaysLinkError ==
    (LinkedNothing /\ ~LinkOutcome.status) => last.res.tag = "LinkError"

\* C24, amended: with an empty input Program::link (and compile with an
\* empty request, which creates no shader) issues CreateProgram, no
\* AttachShader, LinkProgram and the LINK_STATUS query, in this order; a
\* failure is returned as for any other input: LinkError with the log when
\* the driver delivers a NUL-terminated log, InvalidInfoLog when it
\* delivers none; a success returns the Program.
C24_EmptyLinkIsOrdinary ==
    LinkedNothing
    => /\ Len(calls) >= 3
       /\ calls[1] = Call("CreateProgram", 0, 0, <<>>)
       /\ calls[2] = Call("LinkProgram", LinkedName, 0, <<>>)
       /\ calls[3] = Call("GetProgramiv", LinkedName, LINK_STATUS, <<>>)
       /\ CallsOf("CreateProgram") = {1}
       /\ CallsOf("AttachShader") = {}
       /\ CallsOf("CreateShader") = {}
       /\ LinkOutcome.status
          => (last.res.tag = "Ok" /\ last.res.id = LinkedName /\ LinkedName \in programs)
       /\ ~LinkOutcome.status
          => IF NulTerminated(Delivered(LinkOutcome))
             THEN last.res.tag = "LinkError" /\ Carries(last.res.log, LinkOutcome.log)
             ELSE last.res.tag = "InvalidInfoLog"
       /\ last.op = "SourceCompiler::compile"
          => (last.res.wrap = "ProgramCreationError") <=> ~LinkOutcome.status

C24_Witness ==
    /\ LinkedNothing
    /\ last.op = "SourceCompiler::compile"
    /\ ~LinkOutcome.status
    /\ ~LinkOutcome.hasLog
    /\ LinkOutcome.alloc
    /\ last.res.tag = "InvalidInfoLog"
    /\ last.res.wrap = "ProgramCreationError"

\* ---------------------------------------------------------------- C25
\* The stage kinds, in the order of their declaration.
KindOrder == <<"Vertex", "Fragment", "Geometry", "TessControl", "TessEvaluation", "Compute">>

\* The request with the kinds made pairwise distinct: entry k gets kind k.
DistinctKinds(req) ==
    [k \in 1..Len(req) |-> [req[k] EXCEPT !.ty = KindOrder[k]]]

\* The calls, stage arguments of CreateShader set aside.
KindsHidden(cs) ==
    [c \in 1..Len(cs) |-> IF cs[c].f = "CreateShader" THEN [cs[c] EXCEPT !.a = 0] ELSE cs[c]]

\* compile on the driver state g, as DoCompile calls it.
CompileOn(g, req, ds) ==
    SourceCompilerCompile(g, req, SubSeq(ds, 1, Len(req)), ds[Len(req) + 1])

\* C25: compile does not look at the stage kinds.  A request naming a kind
\* twice gets one shader created and compiled per entry up to the first
\* failure, and when all compile they are all attached and the program
\* linked; its result, and everything it does to the driver but the stage
\* argument of CreateShader, is what the same request with distinct kinds
\* gets; its only errors are those of Shader::new and Program::link.
C25_NoKindValidation ==
    [][(last'.op = "SourceCompiler::compile" /\ DuplicateKinds(last'.req))
        => LET i == FirstFailing(last'.req, last'.ds)
               n == Len(last'.req)
               other == CompileOn(G, DistinctKinds(last'.req), last'.ds)
           IN /\ ~DuplicateKinds(DistinctKinds(last'.req))
              /\ other.res = last'.res
              /\ other.g.objs = objs' /\ other.g.active = active' /\ other.g.next = next'
              /\ KindsHidden(other.g.calls) = KindsHidden(calls')
              /\ (last'.res.tag = "Ok") <=> (i = 0 /\ last'.ds[n + 1].status)
              /\ (last'.res.wrap = "ShaderCreationError") <=> i # 0
              /\ (last'.res.wrap = "ProgramCreationError")
                    <=> (i = 0 /\ ~last'.ds[n + 1].status)
              /\ i = 0
                 => (/\ Cardinality({c \in 1..Len(calls') : calls'[c].f = "CompileShader"}) = n
                     /\ Cardinality({c \in 1..Len(calls') : calls'[c].f = "AttachShader"}) = n
                     /\ Cardinality({c \in 1..Len(calls') : calls'[c].f = "LinkProgram"}) = 1)]_vars

C25_Witness ==
    /\ last.op = "SourceCompiler::compile"
    /\ Len(last.req) = 2
    /\ last.req[1].ty = "Fragment"
    /\ last.req[2].ty = "Fragment"
    /\ last.res.tag = "Ok"
    /\ objs[last.res.id].attached = <<NewName(1), NewName(2)>>
    /\ last.res.id \in programs

\* ---------------------------------------------------------------- C26
\* The seven known error codes, each with its variant.
KnownErrors ==
    {<<INVALID_ENUM, "InvalidEnum">>, <<INVALID_VALUE, "InvalidValue">>,
     <<INVALID_OPERATION, "InvalidOperation">>, <<STACK_OVERFLOW, "StackOverflow">>,
     <<STACK_UNDERFLOW, "StackUnderflow">>, <<OUT_OF_MEMORY, "OutOfMemory">>,
     <<INVALID_FRAMEBUFFER_OPERATION, "InvalidFramebufferOperation">>}

KnownCodes == {p[1] : p \in KnownErrors}

\* C26: from_error_code gives a result for every code: None exactly for
\* NO_ERROR, for each of the seven known codes its own variant (seven
\* distinct variants for seven distinct codes), and for every other code c
\* Unrecognized(c), with c itself as payload.
C26_FromErrorCodeTotal ==
    /\ Cardinality(KnownCodes) = 7
    /\ Cardinality({p[2] : p \in KnownErrors}) = 7
    /\ NO_ERROR \notin KnownCodes
    /\ gl_error # NotChecked
       => /\ gl_error.some <=> error_code # NO_ERROR
          /\ error_code = NO_ERROR => gl_error = None
          /\ \A p \in KnownErrors :
                /\ error_code = p[1] => gl_error = Some(p[2], 0)
                /\ gl_error.variant = p[2] => error_code = p[1]
          /\ error_code \notin (KnownCodes \cup {NO_ERROR})
                => gl_error = Some("Unrecognized", error_code)
          /\ gl_error.variant = "Unrecognized"
                => error_code \notin (KnownCodes \cup {NO_ERROR})

C26_Witness ==
    /\ error_code = INVALID_FRAMEBUFFER_OPERATION + 1
    /\ gl_error.some
    /\ gl_error.variant = "Unrecognized"
    /\ gl_error.code = INVALID_FRAMEBUFFER_OPERATION + 1

\* ---------------------------------------------------------------- C27
\* The calls that take a compiled shader away: detach or delete.
ShaderReleases == CallsOf("DetachShader") \cup CallsOf("DeleteShader")

\* The order of the GL calls of an example's main(), up to now.
RawOrder ==
    LET P == locals.program
        Draws == CallsOf("DrawArrays")
        Deletes == CallsOf("DeleteProgram")
    IN /\ \A c \in ShaderReleases :
            /\ \E l \in CallsOf("LinkProgram") : l < c
            /\ P \in Handles
            /\ objs[P].kind = "program"
            /\ objs[P].linked \/ objs[P].gone
            /\ \A d \in Draws : c < d
       /\ \A c \in CallsOf("DeleteShader") :
            /\ c > 1
            /\ calls[c - 1] = Call("DetachShader", P, calls[c].a, <<>>)
            /\ calls[c].a \in {locals.vertex_shader, locals.fragment_shader}
            /\ calls[c].a # 0
       /\ Draws # {}
          => \A sh \in {locals.vertex_shader, locals.fragment_shader} :
                /\ Cardinality({c \in CallsOf("DetachShader") : calls[c].b = sh}) = 1
                /\ Cardinality({c \in CallsOf("DeleteShader") : calls[c].a = sh}) = 1
                /\ objs[sh].gone
       /\ \A d \in Draws :
            /\ P # 0
            /\ calls[d].a = P
            /\ \E u \in CallsOf("UseProgram") : u < d /\ calls[u].a = P
            /\ example = "04_shader_uniforms" => calls[d - 1] = Call("UseProgram", P, 0, <<>>)
            /\ \A x \in Deletes : d < x
       /\ Cardinality(Deletes) <= 1
       /\ \A x \in Deletes : calls[x].a = P /\ x = Len(calls) /\ pc = "done"
       /\ pc = "done" => (Cardinality(Deletes) = 1 /\ objs[P].delReq = 1)
       /\ pc \in {"delete", "done"} => event = "Closed"
       /\ event = "Closed"
          => pc \in (IF example = "04_shader_uniforms" THEN {"delete", "done"}
                     ELSE {"draw", "swap", "delete", "done", "panicked"})

\* C27: in the raw-GL examples the shaders are detached and deleted only
\* once the program has linked, and before the first draw; every draw runs
\* with the program bound; the program is deleted at most once, as the last
\* call, after the loop was left on a Closed event, exactly once when main()
\* returns, and no draw follows it; and once Closed is received the loop is
\* left: main() goes on to its end (or panics in swap_buffers).
C27_RawExampleOrder ==
    /\ []RawOrder
    /\ (event = "Closed") ~> (pc \in {"done", "panicked"})

C27_Witness ==
    /\ example = "02_hello_triangle"
    /\ pc = "done"
    /\ frames = 2
    /\ event = "Closed"
    /\ Cardinality(CallsOf("DrawArrays")) = 2
    /\ calls[Len(calls)] = Call("DeleteProgram", locals.program, 0, <<>>)
    /\ objs[locals.program].delReq = 1

====
